---- MODULE Spec2Model ----
(***************************************************************************)
(* Model of src/_http.py: _HttpClient, a wrapper around requests.Session   *)
(* with an application-level retry loop (exponential backoff, jitter,      *)
(* Retry-After on 429, a cumulative sleep budget).                         *)
(*                                                                         *)
(* Durations are whole seconds: every float of the code (backoff_base,     *)
(* backoff_jitter, max_backoff_total, the sleeps) is a small integer, for  *)
(* which the float arithmetic of the code is exact.  The jitter drawn by   *)
(* random.Random.uniform is a deterministic function of the generator's    *)
(* state, rounded down to whole seconds.                                   *)
(*                                                                         *)
(* Locals of request() are functions over Threads: one request() call per  *)
(* thread at a time, a thread may call again after its call ended.         *)
(***************************************************************************)
EXTENDS Integers, Sequences, FiniteSets, TLC

\* ------------------------------------------------------------------ bounds
MaxRetriesChoice == 2   \* largest max_retries given to the constructor
MaxBase == 1            \* largest backoff_base
MaxJitter == 2          \* largest backoff_jitter
MaxTotal == 3           \* largest max_backoff_total
RandMod == 2            \* number of states of the jitter generator

Threads == {"t1", "t2"}

\* Optional[...] values: <<>> is None, <<v>> is v.
None == <<>>
Some(v) == <<v>>

Max(a, b) == IF a >= b THEN a ELSE b

RECURSIVE Pow2(_)
Pow2(n) == IF n <= 0 THEN 1 ELSE 2 * Pow2(n - 1)

\* ---------------------------------------------------------- the Transport
\* Status codes the Transport answers with: success, a terminal client
\* error, the rate limit, a server error.
Statuses == {200, 404, 429, 503}

\* Retry-After header values, as character sequences.
HeaderValues ==
    { <<"0">>, <<" ", "2">>, <<"a", "b", "c">>, <<"-", "1">> }

\* What a Transport call may return: a status and an optional Retry-After.
\* The header accompanies 429 in every form and 503 in one valid form.
ResponseChoices ==
    { <<s, None>> : s \in Statuses }
      \cup { <<429, Some(h)>> : h \in HeaderValues }
      \cup { <<503, Some(<<" ", "2">>)>> }

\* Exception classes and their base classes (isinstance walks these).
ExceptionBases ==
    [ ReadTimeout       |-> {"ReadTimeout", "Timeout", "RequestException", "OSError", "Exception"},
      ConnectionError   |-> {"ConnectionError", "RequestException", "OSError", "Exception"},
      ProtocolError     |-> {"ProtocolError", "urllib3.HTTPError", "Exception"},
      IncompleteRead    |-> {"IncompleteRead", "HTTPException", "Exception"},
      BadStatusLine     |-> {"BadStatusLine", "HTTPException", "Exception"},
      InvalidSchema     |-> {"InvalidSchema", "RequestException", "ValueError", "OSError", "Exception"},
      KeyboardInterrupt |-> {"KeyboardInterrupt"} ]

ExceptionChoices == DOMAIN ExceptionBases

IsInstance(cls, base) == base \in ExceptionBases[cls]

NoException == [cls |-> "None", id |-> 0]
NoResponse == [status |-> 0, id |-> 0]

\* ------------------------------------------------------------- pure helpers
\* Mutant of IsRetryableException: every requests exception is retried.
IsRetryableException_AnyRequestException(cls) ==
    \/ IsInstance(cls, "RequestException")
    \/ IsInstance(cls, "ProtocolError")
    \/ IsInstance(cls, "IncompleteRead")
    \/ IsInstance(cls, "BadStatusLine")

\* _is_retryable_exception: a chain of isinstance tests.
IsRetryableException(cls) ==
    \/ IsInstance(cls, "Timeout")
    \/ IsInstance(cls, "ConnectionError")
    \/ IsInstance(cls, "ProtocolError")
    \/ IsInstance(cls, "IncompleteRead")
    \/ IsInstance(cls, "BadStatusLine")

\* Mutant of IsRetryableStatus: 599 is left out of the server errors.
IsRetryableStatus_Below599(status) ==
    IF status = 429 THEN TRUE
    ELSE IF 500 <= status /\ status < 599 THEN TRUE
    ELSE FALSE

\* Mutant of IsRetryableStatus: server errors are not retried.
IsRetryableStatus_Only429(status) == status = 429

\* Mutant of IsRetryableStatus: client errors are retried too.
IsRetryableStatus_From400(status) ==
    IF status = 429 THEN TRUE
    ELSE IF 400 <= status /\ status <= 599 THEN TRUE
    ELSE FALSE

\* _is_retryable_status
IsRetryableStatus(status) ==
    IF status = 429 THEN TRUE
    ELSE IF 500 <= status /\ status <= 599 THEN TRUE
    ELSE FALSE

\* random.Random: the generator's states are 0 .. RandMod-1; one draw moves
\* it to the next state and reads random() in [0, 1) off that state.
\* uniform(0, b) is 0 + b * random(), rounded down to whole seconds.
Seeded(seed) == seed % RandMod
NextRand(s) == (s + 1) % RandMod
Uniform(s, b) == (b * s) \div RandMod

\* Mutant of ComputeBackoff: the exponent is the index, not the index - 1.
ComputeBackoff_ExponentOffByOne(s, attempt_index, base, jitter) ==
    LET expo == base * Pow2(attempt_index)
        drawn == IF jitter > 0 THEN NextRand(s) ELSE s
        jitter_part == IF jitter > 0 THEN Uniform(drawn, Max(0, jitter)) ELSE 0
    IN [value |-> expo + jitter_part, rand |-> drawn]

\* Mutant of ComputeBackoff: the exponential term is cut at a ceiling.
ComputeBackoff_Ceiling(s, attempt_index, base, jitter) ==
    LET expo == base * Pow2(attempt_index - 1)
        cut == IF expo > 60 THEN 60 ELSE expo
        drawn == IF jitter > 0 THEN NextRand(s) ELSE s
        jitter_part == IF jitter > 0 THEN Uniform(drawn, Max(0, jitter)) ELSE 0
    IN [value |-> cut + jitter_part, rand |-> drawn]

\* _compute_backoff: the value, and the generator's state after the call.
ComputeBackoff(s, attempt_index, base, jitter) ==
    LET expo == base * Pow2(attempt_index - 1)
        drawn == IF jitter > 0 THEN NextRand(s) ELSE s
        jitter_part == IF jitter > 0 THEN Uniform(drawn, Max(0, jitter)) ELSE 0
    IN [value |-> expo + jitter_part, rand |-> drawn]

\* str.strip(): leading and trailing blanks removed.
RECURSIVE LStrip(_)
LStrip(s) == IF s # <<>> /\ Head(s) = " " THEN LStrip(Tail(s)) ELSE s
RECURSIVE RStrip(_)
RStrip(s) ==
    IF s # <<>> /\ s[Len(s)] = " " THEN RStrip(SubSeq(s, 1, Len(s) - 1)) ELSE s
Strip(s) == RStrip(LStrip(s))

DigitChars == <<"0", "1", "2", "3", "4", "5", "6", "7", "8", "9">>
IsDigit(c) == \E i \in 1 .. Len(DigitChars) : DigitChars[i] = c
DigitValue(c) == (CHOOSE i \in 1 .. Len(DigitChars) : DigitChars[i] = c) - 1

RECURSIVE DigitsValue(_)
DigitsValue(s) ==
    IF s = <<>> THEN 0
    ELSE 10 * DigitsValue(SubSeq(s, 1, Len(s) - 1)) + DigitValue(s[Len(s)])

\* int(text): an optional sign and at least one decimal digit; <<v>> when the
\* text is an integer, None when int() raises ValueError.
ParseInt(s) ==
    LET signed == s # <<>> /\ Head(s) \in {"+", "-"}
        digits == IF signed THEN Tail(s) ELSE s
    IN IF digits # <<>> /\ \A i \in 1 .. Len(digits) : IsDigit(digits[i])
       THEN Some(IF signed /\ Head(s) = "-" THEN 0 - DigitsValue(digits)
                 ELSE DigitsValue(digits))
       ELSE None

\* Mutant of RetryAfterSeconds: the test val >= 0 is missing.
RetryAfterSeconds_NoSignTest(ra) ==
    IF ra = None THEN None
    ELSE LET val == ParseInt(Strip(ra[1]))
         IN IF val # None THEN Some(val[1]) ELSE None

\* The Retry-After block of request(): the header of a response (None or
\* <<text>>) to the seconds to sleep, None when absent, malformed or negative.
RetryAfterSeconds(ra) ==
    IF ra = None THEN None
    ELSE LET val == ParseInt(Strip(ra[1]))
         IN IF val # None /\ val[1] >= 0 THEN Some(val[1]) ELSE None

\* Mutant of BudgetCap: the overshooting sleep is cut to the whole budget.
BudgetCap_CapsToTotal(cum, sleep, total) ==
    IF cum + sleep > total
    THEN LET remaining == Max(0, total - cum)
         IN IF remaining <= 0
            THEN [brk |-> TRUE, sleep |-> sleep, capped |-> FALSE]
            ELSE [brk |-> FALSE, sleep |-> total, capped |-> TRUE]
    ELSE [brk |-> FALSE, sleep |-> sleep, capped |-> FALSE]

\* Mutant of BudgetCap: the loop is left only below a remainder of zero.
BudgetCap_BreakBelowZero(cum, sleep, total) ==
    IF cum + sleep > total
    THEN LET remaining == Max(0, total - cum)
         IN IF remaining < 0
            THEN [brk |-> TRUE, sleep |-> sleep, capped |-> FALSE]
            ELSE [brk |-> FALSE, sleep |-> remaining, capped |-> TRUE]
    ELSE [brk |-> FALSE, sleep |-> sleep, capped |-> FALSE]

\* Mutant of BudgetCap: a sleep that reaches the budget exactly counts as
\* overshooting.
BudgetCap_BreakAtEqual(cum, sleep, total) ==
    IF cum + sleep >= total
    THEN LET remaining == Max(0, total - cum)
         IN IF remaining <= 0
            THEN [brk |-> TRUE, sleep |-> sleep, capped |-> FALSE]
            ELSE [brk |-> FALSE, sleep |-> remaining, capped |-> TRUE]
    ELSE [brk |-> FALSE, sleep |-> sleep, capped |-> FALSE]

\* Mutant of BudgetCap: every overshooting sleep ends the loop.
BudgetCap_BreakOnOvershoot(cum, sleep, total) ==
    IF cum + sleep > total
    THEN [brk |-> TRUE, sleep |-> sleep, capped |-> FALSE]
    ELSE [brk |-> FALSE, sleep |-> sleep, capped |-> FALSE]

\* Mutant of BudgetCap: the overshooting sleep is not cut to the remainder.
BudgetCap_NoClip(cum, sleep, total) ==
    IF cum + sleep > total /\ Max(0, total - cum) <= 0
    THEN [brk |-> TRUE, sleep |-> sleep, capped |-> FALSE]
    ELSE [brk |-> FALSE, sleep |-> sleep, capped |-> FALSE]

\* The budget block of request() (the same text in the status path and in
\* the exception path): break without sleeping, or the sleep to perform.
BudgetCap(cum, sleep, total) ==
    IF cum + sleep > total
    THEN LET remaining == Max(0, total - cum)
         IN IF remaining <= 0
            THEN [brk |-> TRUE, sleep |-> sleep, capped |-> FALSE]
            ELSE [brk |-> FALSE, sleep |-> remaining, capped |-> TRUE]
    ELSE [brk |-> FALSE, sleep |-> sleep, capped |-> FALSE]

\* Response.raise_for_status() of requests: HTTPError for 4xx and 5xx.
RaisesForStatus(status) == 400 <= status /\ status < 600

\* Mutant of FinalOutcome: the failing response is closed when streaming too.
FinalOutcome_ClosesWhenStreaming(exc, resp, strm) ==
    IF exc # NoException
    THEN [kind |-> "raised", cls |-> exc.cls, id |-> exc.id, closes |-> FALSE]
    ELSE IF RaisesForStatus(resp.status)
    THEN [kind |-> "HTTPError", cls |-> "HTTPError", id |-> resp.id, closes |-> TRUE]
    ELSE [kind |-> "returned", cls |-> "None", id |-> resp.id, closes |-> FALSE]

\* Mutant of FinalOutcome: the final exception is wrapped in another one.
FinalOutcome_Wrapped(exc, resp, strm) ==
    IF exc # NoException
    THEN [kind |-> "raised", cls |-> "RetryError", id |-> 0, closes |-> FALSE]
    ELSE IF RaisesForStatus(resp.status)
    THEN [kind |-> "HTTPError", cls |-> "HTTPError", id |-> resp.id, closes |-> ~strm]
    ELSE [kind |-> "returned", cls |-> "None", id |-> resp.id, closes |-> FALSE]

\* Final outcome handling of request(): what the caller sees, and whether
\* the final response is closed on the way out.
FinalOutcome(exc, resp, strm) ==
    IF exc # NoException
    THEN [kind |-> "raised", cls |-> exc.cls, id |-> exc.id, closes |-> FALSE]
    ELSE IF RaisesForStatus(resp.status)
    THEN [kind |-> "HTTPError", cls |-> "HTTPError", id |-> resp.id, closes |-> ~strm]
    ELSE [kind |-> "returned", cls |-> "None", id |-> resp.id, closes |-> FALSE]

NoOutcome == [kind |-> "none", cls |-> "None", id |-> 0, closes |-> FALSE]

\* -------------------------------------------------------------------- state
VARIABLES
    \* the _HttpClient instances: their configuration, and the generator of
    \* each
    self_max_retries, self_backoff_base, self_backoff_jitter,
    self_max_backoff_total, rand,
    self,            \* the instance each thread calls request() on
    \* the locals of request(), per calling thread
    pc, stream, eff_max_retries, eff_backoff_base, eff_backoff_jitter,
    eff_max_backoff_total, attempts, cumulative_sleep, last_exception,
    last_response, sleep_seconds, capped,
    resp_header,     \* the Retry-After header of the response in hand
    \* what the collaborators and the caller have seen of the call
    transport_log,   \* per Transport call: the status returned, 0 for a fault
    thrown,          \* the fault the latest failing Transport call raised
    slept,           \* the values passed to the sleep function, in order
    proposed,        \* the sleep wanted for the latest retry, before the cap
    proposals,       \* the sleeps wanted for the retries so far, in order
    passed,          \* the overrides the call was given
    closed,          \* ids of the responses close() was called on
    exit_reason,     \* which break left the loop
    outcome,         \* what request() returned or raised
    \* a helper called on its own: its arguments and its result
    probe,
    \* utils/download_core.py: _thread_local.session per thread, and each
    \* thread's call of get_session()
    tl_session,      \* the session attribute of _thread_local, None if unset
    gs_pc,           \* where the thread's call of get_session() is
    gs_session,      \* the local `session`, 0 before it is created
    gs_created,      \* the Session objects the thread has created
    gs_returned,     \* what get_session() returned to it, call by call
    \* utils/download_core.py: the target file and each thread's call of
    \* write_temp_then_replace()
    fs_target,       \* content of target_path, None if it does not exist
    wt_pc,           \* where the thread's call is
    wt_chunks,       \* what stream_iterable has still to yield
    wt_raises,       \* whether stream_iterable raises after the last chunk
    wt_temp,         \* the name of the thread's temporary file, None if none
    fs_temp,         \* the temporary files of the directory, by name
    wt_total,        \* total_bytes
    wt_before,       \* content of target_path when the call was made
    wt_input,        \* the chunks of stream_iterable when the call was made
    wt_result,       \* what the call returned or raised
    \* utils/download_core.py: the names in dest_dir and the call of
    \* ensure_unique_path()
    fs_names,        \* the names that exist in dest_dir
    eu_pc,           \* where the call is
    eu_counter,      \* counter, 0 while the original name is tried
    eu_before,       \* the names that existed when the call was made
    eu_result,       \* the path returned, None before
    \* image_downloader.py: the call of _get_all_items()
    gi_pc,           \* where the call is
    gi_page,         \* page, the part of the input still to scan
    gi_limit,        \* limit
    gi_items,        \* items
    gi_count,        \* count
    gi_input,        \* the page the call was made with
    gi_offsets       \* where in that page each item of items was found

self_vars == <<self_max_retries, self_backoff_base, self_backoff_jitter,
               self_max_backoff_total, self>>
eff_vars == <<stream, eff_max_retries, eff_backoff_base, eff_backoff_jitter,
              eff_max_backoff_total>>
vars == <<self_max_retries, self_backoff_base, self_backoff_jitter,
          self_max_backoff_total, rand, self, pc, stream, eff_max_retries,
          eff_backoff_base, eff_backoff_jitter, eff_max_backoff_total,
          attempts, cumulative_sleep, last_exception, last_response,
          sleep_seconds, capped, resp_header, transport_log, thrown, slept,
          proposed, proposals, passed, closed, exit_reason, outcome, probe,
          tl_session, gs_pc, gs_session, gs_created, gs_returned,
          fs_target, wt_pc, wt_chunks, wt_raises, wt_temp, fs_temp, wt_total,
          wt_before, wt_input, wt_result,
          fs_names, eu_pc, eu_counter, eu_before, eu_result,
          gi_pc, gi_page, gi_limit, gi_items, gi_count, gi_input,
          gi_offsets>>

\* Constructor arguments.
CtorRetries == {1, MaxRetriesChoice}
CtorBase == 1 .. MaxBase
CtorJitter == {0, MaxJitter}
CtorTotal == 0 .. MaxTotal

\* Per-call overrides (max_retries, backoff_base, backoff_jitter,
\* max_backoff_total), each None or a value.
OverrideChoices ==
    { <<None, None, None, None>>,
      <<Some(0 - 1), None, None, None>>,
      <<Some(0), None, None, None>>,
      <<None, Some(0), None, None>>,
      <<Some(1), None, Some(0), None>>,
      <<Some(1), None, None, Some(1)>>,
      <<Some(1), None, None, Some(0 - 1)>>,
      <<Some(1), Some(MaxBase + 1), Some(1), Some(MaxTotal + 1)>> }

\* jitter_seed: a fixed seed; later calls start from the states the draws
\* of earlier calls left the generator in.
CtorSeed == {0}

NoProbe ==
    [fn |-> "none", arg |-> 0, base |-> 0, jitter |-> 0, ret |-> 0,
     truth |-> FALSE]

session_vars == <<tl_session, gs_pc, gs_session, gs_created, gs_returned>>
write_vars ==
    <<fs_target, wt_pc, wt_chunks, wt_raises, wt_temp, fs_temp, wt_total, wt_before,
      wt_input, wt_result>>
path_vars == <<fs_names, eu_pc, eu_counter, eu_before, eu_result>>
items_vars ==
    <<gi_pc, gi_page, gi_limit, gi_items, gi_count, gi_input, gi_offsets>>
core_vars == <<session_vars, write_vars, path_vars, items_vars>>

\* What a call of write_temp_then_replace() has returned or raised.
NoResult == [kind |-> "none", value |-> 0, cls |-> "None"]

\* The threads that call get_session().
Workers == {"w1", "w2", "w3"}

MaxTemps == 2   \* names NamedTemporaryFile chooses from
TempNames == 1 .. MaxTemps

\* utils/download_core.py is loaded: no thread has a session and nothing is
\* under way.
LibraryAtRest ==
    /\ tl_session = [w \in Workers |-> None]
    /\ gs_pc = [w \in Workers |-> "idle"]
    /\ gs_session = [w \in Workers |-> 0]
    /\ gs_created = [w \in Workers |-> {}]
    /\ gs_returned = [w \in Workers |-> <<>>]
    /\ fs_target = None
    /\ wt_pc = [w \in Workers |-> "idle"]
    /\ wt_chunks = [w \in Workers |-> <<>>]
    /\ wt_raises = [w \in Workers |-> FALSE]
    /\ wt_temp = [w \in Workers |-> None]
    /\ fs_temp = [n \in TempNames |-> None]
    /\ wt_total = [w \in Workers |-> 0]
    /\ wt_before = [w \in Workers |-> None]
    /\ wt_input = [w \in Workers |-> <<>>]
    /\ wt_result = [w \in Workers |-> NoResult]
    /\ fs_names = {}
    /\ eu_pc = "idle"
    /\ eu_counter = 0
    /\ eu_before = {}
    /\ eu_result = None

ItemsAtRest ==
    /\ gi_pc = "idle"
    /\ gi_page = <<>>
    /\ gi_limit = 0
    /\ gi_items = <<>>
    /\ gi_count = 0
    /\ gi_input = <<>>
    /\ gi_offsets = <<>>

CoreAtRest == LibraryAtRest /\ ItemsAtRest

\* The instances that may exist, and the generator of the instance a thread
\* calls.
Executors == {"e1", "e2"}
Rand(t) == rand[self[t]]

\* Mutant of Draw: the jitter comes from one generator shared by every
\* instance.
Draw_SharedGenerator(r, e, s) == [x \in DOMAIN r |-> s]

\* A draw from the generator of instance e leaves it in state s.
Draw(r, e, s) == [r EXCEPT ![e] = s]

\* __init__: the defaults are stored and the private generator is seeded;
\* instances built alike get the same configuration and the same seed.
\* binding: the instance each thread is going to call.
Construct(binding) ==
    /\ self = binding
    /\ self_max_retries \in CtorRetries
    /\ self_backoff_base \in CtorBase
    /\ self_backoff_jitter \in CtorJitter
    /\ self_max_backoff_total \in CtorTotal
    /\ \E seed \in CtorSeed : rand = [e \in Executors |-> Seeded(seed)]
    /\ pc = [t \in Threads |-> "idle"]
    /\ stream = [t \in Threads |-> FALSE]
    /\ eff_max_retries = [t \in Threads |-> 0]
    /\ eff_backoff_base = [t \in Threads |-> 0]
    /\ eff_backoff_jitter = [t \in Threads |-> 0]
    /\ eff_max_backoff_total = [t \in Threads |-> 0]
    /\ attempts = [t \in Threads |-> 0]
    /\ cumulative_sleep = [t \in Threads |-> 0]
    /\ last_exception = [t \in Threads |-> NoException]
    /\ last_response = [t \in Threads |-> NoResponse]
    /\ sleep_seconds = [t \in Threads |-> 0]
    /\ capped = [t \in Threads |-> FALSE]
    /\ resp_header = [t \in Threads |-> None]
    /\ transport_log = [t \in Threads |-> <<>>]
    /\ thrown = [t \in Threads |-> NoException]
    /\ slept = [t \in Threads |-> <<>>]
    /\ proposed = [t \in Threads |-> 0]
    /\ proposals = [t \in Threads |-> <<>>]
    /\ passed = [t \in Threads |-> <<None, None, None, None>>]
    /\ closed = [t \in Threads |-> {}]
    /\ exit_reason = [t \in Threads |-> "none"]
    /\ outcome = [t \in Threads |-> NoOutcome]
    /\ probe = NoProbe

\* One instance, called by every thread.
Init == Construct([t \in Threads |-> "e1"]) /\ CoreAtRest

\* Mutant of Request: an override of max_retries is stored as the new default.
Request_StoresOverrides(t, ov, strm) ==
    /\ pc[t] = "idle"
    /\ pc' = [pc EXCEPT ![t] = "attempting"]
    /\ stream' = [stream EXCEPT ![t] = strm]
    /\ self_max_retries' = IF ov[1] = None THEN self_max_retries ELSE ov[1][1]
    /\ eff_max_retries' = [eff_max_retries EXCEPT ![t] = self_max_retries']
    /\ eff_backoff_base' = [eff_backoff_base EXCEPT ![t] =
           IF ov[2] = None THEN self_backoff_base ELSE ov[2][1]]
    /\ eff_backoff_jitter' = [eff_backoff_jitter EXCEPT ![t] =
           IF ov[3] = None THEN self_backoff_jitter ELSE ov[3][1]]
    /\ eff_max_backoff_total' = [eff_max_backoff_total EXCEPT ![t] =
           IF ov[4] = None THEN self_max_backoff_total ELSE ov[4][1]]
    /\ attempts' = [attempts EXCEPT ![t] = 0]
    /\ cumulative_sleep' = [cumulative_sleep EXCEPT ![t] = 0]
    /\ last_exception' = [last_exception EXCEPT ![t] = NoException]
    /\ last_response' = [last_response EXCEPT ![t] = NoResponse]
    /\ passed' = [passed EXCEPT ![t] = ov]
    /\ UNCHANGED <<self_backoff_base, self_backoff_jitter,
                   self_max_backoff_total, self, rand, sleep_seconds, capped,
                   resp_header, transport_log, thrown, slept, proposed,
                   proposals, closed, exit_reason, outcome, probe, core_vars>>

\* request(), entry: the effective retry configuration is resolved and the
\* locals are initialised.
Request(t, ov, strm) ==
    /\ pc[t] = "idle"
    /\ pc' = [pc EXCEPT ![t] = "attempting"]
    /\ stream' = [stream EXCEPT ![t] = strm]
    /\ eff_max_retries' = [eff_max_retries EXCEPT ![t] =
           IF ov[1] = None THEN self_max_retries ELSE ov[1][1]]
    /\ eff_backoff_base' = [eff_backoff_base EXCEPT ![t] =
           IF ov[2] = None THEN self_backoff_base ELSE ov[2][1]]
    /\ eff_backoff_jitter' = [eff_backoff_jitter EXCEPT ![t] =
           IF ov[3] = None THEN self_backoff_jitter ELSE ov[3][1]]
    /\ eff_max_backoff_total' = [eff_max_backoff_total EXCEPT ![t] =
           IF ov[4] = None THEN self_max_backoff_total ELSE ov[4][1]]
    /\ attempts' = [attempts EXCEPT ![t] = 0]
    /\ cumulative_sleep' = [cumulative_sleep EXCEPT ![t] = 0]
    /\ last_exception' = [last_exception EXCEPT ![t] = NoException]
    /\ last_response' = [last_response EXCEPT ![t] = NoResponse]
    /\ passed' = [passed EXCEPT ![t] = ov]
    /\ UNCHANGED <<self_vars, rand, sleep_seconds, capped, resp_header,
                   transport_log, thrown, slept, proposed, proposals, closed,
                   exit_reason, outcome, probe, core_vars>>

\* Mutant of RetryDecision: the computed backoff is slept on top of the
\* Retry-After value.
RetryDecision_HeaderPlusBackoff(t, ra) ==
    LET bo == ComputeBackoff(Rand(t), attempts[t] + 1, eff_backoff_base[t],
                             eff_backoff_jitter[t])
        want == IF ra # None THEN ra[1] + bo.value ELSE bo.value
        cap == BudgetCap(cumulative_sleep[t], want, eff_max_backoff_total[t])
    IN [want |-> want, brk |-> cap.brk, sleep |-> cap.sleep,
        capped |-> cap.capped, rand |-> bo.rand]

\* Mutant of RetryDecision: a Retry-After value is slept in full, the budget
\* block is applied to a computed backoff only.
RetryDecision_HeaderUnbudgeted(t, ra) ==
    LET bo == ComputeBackoff(Rand(t), attempts[t] + 1, eff_backoff_base[t],
                             eff_backoff_jitter[t])
        want == IF ra # None THEN ra[1] ELSE bo.value
        cap == IF ra # None
               THEN [brk |-> FALSE, sleep |-> want, capped |-> FALSE]
               ELSE BudgetCap(cumulative_sleep[t], want,
                              eff_max_backoff_total[t])
    IN [want |-> want, brk |-> cap.brk, sleep |-> cap.sleep,
        capped |-> cap.capped, rand |-> IF ra # None THEN Rand(t) ELSE bo.rand]

\* Mutant of RetryDecision: the backoff is computed, and a jitter drawn, also
\* when the Retry-After value is used.
RetryDecision_DrawsWithHeader(t, ra) ==
    LET bo == ComputeBackoff(Rand(t), attempts[t] + 1, eff_backoff_base[t],
                             eff_backoff_jitter[t])
        want == IF ra # None THEN ra[1] ELSE bo.value
        cap == BudgetCap(cumulative_sleep[t], want, eff_max_backoff_total[t])
    IN [want |-> want, brk |-> cap.brk, sleep |-> cap.sleep,
        capped |-> cap.capped, rand |-> bo.rand]

\* What one pass through the retry branch decides, after a retryable status
\* or a retryable exception with attempts left: the sleep wanted, the budget
\* block's verdict, the generator's state.
RetryDecision(t, ra) ==
    LET bo == ComputeBackoff(Rand(t), attempts[t] + 1, eff_backoff_base[t],
                             eff_backoff_jitter[t])
        want == IF ra # None THEN ra[1] ELSE bo.value
        cap == BudgetCap(cumulative_sleep[t], want, eff_max_backoff_total[t])
    IN [want |-> want, brk |-> cap.brk, sleep |-> cap.sleep,
        capped |-> cap.capped, rand |-> IF ra # None THEN Rand(t) ELSE bo.rand]

\* Mutant of CloseBeforeRetry: the response is not closed.
CloseBeforeRetry_Missing(cl, resp) == cl

\* last_response.close() before a retry: the responses closed so far, and
\* this one.
CloseBeforeRetry(cl, resp) == cl \cup {resp.id}

\* The loop body from the Transport call on, up to a break (and then the
\* final outcome handling) or up to the call of the sleep function.
\*   retry: the outcome is retryable and attempts are left
\*   why:   the break taken when it is not
\*   exc, resp: last_exception and last_response after the Transport call
LoopBody(t, retry, why, hdr, ra, exc, resp, entry) ==
    LET d == RetryDecision(t, ra)
        brk == ~retry \/ d.brk
        fin == FinalOutcome(exc, resp, stream[t])
    IN /\ transport_log' = [transport_log EXCEPT ![t] = Append(@, entry)]
       /\ thrown' = [thrown EXCEPT ![t] = IF entry = 0 THEN exc ELSE @]
       /\ last_exception' = [last_exception EXCEPT ![t] = exc]
       /\ last_response' = [last_response EXCEPT ![t] = resp]
       /\ resp_header' = [resp_header EXCEPT ![t] = hdr]
       /\ rand' = IF retry THEN Draw(rand, self[t], d.rand) ELSE rand
       /\ proposed' = [proposed EXCEPT ![t] = IF retry THEN d.want ELSE @]
       /\ proposals' = [proposals EXCEPT ![t] =
              IF retry THEN Append(@, d.want) ELSE @]
       /\ sleep_seconds' = [sleep_seconds EXCEPT ![t] = IF retry THEN d.sleep ELSE @]
       /\ capped' = [capped EXCEPT ![t] = IF retry THEN d.capped ELSE @]
       /\ pc' = [pc EXCEPT ![t] = IF brk THEN "done" ELSE "sleeping"]
       /\ exit_reason' = [exit_reason EXCEPT ![t] =
              IF ~retry THEN why ELSE IF d.brk THEN "budget" ELSE @]
       /\ outcome' = [outcome EXCEPT ![t] = IF brk THEN fin ELSE @]
       /\ closed' = [closed EXCEPT ![t] =
              IF brk THEN (IF fin.closes THEN @ \cup {resp.id} ELSE @)
              ELSE IF entry # 0 THEN CloseBeforeRetry(@, resp) ELSE @]
       /\ UNCHANGED <<self_vars, eff_vars, attempts, cumulative_sleep, slept,
                      passed, probe, core_vars>>

\* Mutant of AttemptsLeft: a max_retries below one still allows one retry.
AttemptsLeft_AtLeastOne(t) == attempts[t] < Max(eff_max_retries[t], 1)

\* Mutant of AttemptsLeft: the test is missing.
AttemptsLeft_Always(t) == TRUE

\* Mutant of AttemptsLeft: the test is off by one.
AttemptsLeft_OffByOne(t) == attempts[t] <= eff_max_retries[t]

\* The test `attempts >= eff_max_retries` of both paths, negated.
AttemptsLeft(t) == attempts[t] < eff_max_retries[t]

\* Mutant of SessionRequestReturns: the Transport is called again after the
\* loop was left.
SessionRequestReturns_AfterBreak(t, status, hdr) ==
    /\ pc[t] \in {"attempting", "done"}
    /\ LET resp == [status |-> status, id |-> Len(transport_log[t]) + 1]
           retryable == IsRetryableStatus(status)
           ra == IF status = 429 THEN RetryAfterSeconds(hdr) ELSE None
       IN LoopBody(t, retryable /\ AttemptsLeft(t),
                   IF retryable THEN "exhausted" ELSE "status",
                   hdr, ra, last_exception[t], resp, status)

\* Mutant of SessionRequestReturns: the Retry-After header is read on every
\* retryable status.
SessionRequestReturns_HeaderOnAnyStatus(t, status, hdr) ==
    /\ pc[t] = "attempting"
    /\ LET resp == [status |-> status, id |-> Len(transport_log[t]) + 1]
           retryable == IsRetryableStatus(status)
           ra == RetryAfterSeconds(hdr)
       IN LoopBody(t, retryable /\ AttemptsLeft(t),
                   IF retryable THEN "exhausted" ELSE "status",
                   hdr, ra, last_exception[t], resp, status)

\* The Transport call returns a response with this status and Retry-After.
SessionRequestReturns(t, status, hdr) ==
    /\ pc[t] = "attempting"
    /\ LET resp == [status |-> status, id |-> Len(transport_log[t]) + 1]
           retryable == IsRetryableStatus(status)
           ra == IF status = 429 THEN RetryAfterSeconds(hdr) ELSE None
       IN LoopBody(t, retryable /\ AttemptsLeft(t),
                   IF retryable THEN "exhausted" ELSE "status",
                   hdr, ra, last_exception[t], resp, status)

\* The Transport call raises an exception of this class.
SessionRequestRaises(t, cls) ==
    /\ pc[t] = "attempting"
    /\ LET exc == [cls |-> cls, id |-> Len(transport_log[t]) + 1]
           retryable == IsRetryableException(cls)
       IN LoopBody(t, retryable /\ AttemptsLeft(t),
                   IF retryable THEN "exhausted" ELSE "fault",
                   None, None, exc, last_response[t], 0)

\* Mutant of Sleep: the counters are kept on the instance, one pair for all
\* the calls under way.
Sleep_SharedCounters(t) ==
    /\ pc[t] = "sleeping"
    /\ slept' = [slept EXCEPT ![t] = Append(@, sleep_seconds[t])]
    /\ cumulative_sleep' =
           [u \in Threads |-> cumulative_sleep[u] + sleep_seconds[t]]
    /\ attempts' = [u \in Threads |-> attempts[u] + 1]
    /\ pc' = [pc EXCEPT ![t] = "attempting"]
    /\ resp_header' = [resp_header EXCEPT ![t] = None]
    /\ UNCHANGED <<self_vars, eff_vars, rand, last_exception, last_response,
                   sleep_seconds, capped, transport_log, thrown, proposed,
                   proposals, passed, closed, exit_reason, outcome, probe, core_vars>>

\* Mutant of Sleep: the exception path keeps a counter of its own, attempts
\* counts the retries after a status only.
Sleep_ExceptionsNotCounted(t) ==
    /\ pc[t] = "sleeping"
    /\ slept' = [slept EXCEPT ![t] = Append(@, sleep_seconds[t])]
    /\ cumulative_sleep' = [cumulative_sleep EXCEPT ![t] = @ + sleep_seconds[t]]
    /\ attempts' = [attempts EXCEPT ![t] =
                       IF transport_log[t][Len(transport_log[t])] = 0
                       THEN @ ELSE @ + 1]
    /\ pc' = [pc EXCEPT ![t] = "attempting"]
    /\ resp_header' = [resp_header EXCEPT ![t] = None]
    /\ UNCHANGED <<self_vars, eff_vars, rand, last_exception, last_response,
                   sleep_seconds, capped, transport_log, thrown, proposed,
                   proposals, passed, closed, exit_reason, outcome, probe,
                   core_vars>>

\* Mutant of Sleep: the sleep is not added to cumulative_sleep.
Sleep_NotAccumulated(t) ==
    /\ pc[t] = "sleeping"
    /\ slept' = [slept EXCEPT ![t] = Append(@, sleep_seconds[t])]
    /\ attempts' = [attempts EXCEPT ![t] = @ + 1]
    /\ pc' = [pc EXCEPT ![t] = "attempting"]
    /\ resp_header' = [resp_header EXCEPT ![t] = None]
    /\ UNCHANGED <<self_vars, eff_vars, rand, last_exception, last_response,
                   cumulative_sleep, sleep_seconds, capped, transport_log,
                   thrown, proposed, proposals, passed, closed, exit_reason,
                   outcome, probe, core_vars>>

\* The sleep function returns: the counters are updated and the loop
\* continues with the next Transport call.
Sleep(t) ==
    /\ pc[t] = "sleeping"
    /\ slept' = [slept EXCEPT ![t] = Append(@, sleep_seconds[t])]
    /\ cumulative_sleep' = [cumulative_sleep EXCEPT ![t] = @ + sleep_seconds[t]]
    /\ attempts' = [attempts EXCEPT ![t] = @ + 1]
    /\ pc' = [pc EXCEPT ![t] = "attempting"]
    /\ resp_header' = [resp_header EXCEPT ![t] = None]
    /\ UNCHANGED <<self_vars, eff_vars, rand, last_exception, last_response,
                   sleep_seconds, capped, transport_log, thrown, proposed,
                   proposals, passed, closed, exit_reason, outcome, probe, core_vars>>

\* request() has returned or raised: its frame is gone, the caller holds
\* the outcome no longer.
Exit(t) ==
    /\ pc[t] = "done"
    /\ pc' = [pc EXCEPT ![t] = "idle"]
    /\ stream' = [stream EXCEPT ![t] = FALSE]
    /\ eff_max_retries' = [eff_max_retries EXCEPT ![t] = 0]
    /\ eff_backoff_base' = [eff_backoff_base EXCEPT ![t] = 0]
    /\ eff_backoff_jitter' = [eff_backoff_jitter EXCEPT ![t] = 0]
    /\ eff_max_backoff_total' = [eff_max_backoff_total EXCEPT ![t] = 0]
    /\ attempts' = [attempts EXCEPT ![t] = 0]
    /\ cumulative_sleep' = [cumulative_sleep EXCEPT ![t] = 0]
    /\ last_exception' = [last_exception EXCEPT ![t] = NoException]
    /\ last_response' = [last_response EXCEPT ![t] = NoResponse]
    /\ sleep_seconds' = [sleep_seconds EXCEPT ![t] = 0]
    /\ capped' = [capped EXCEPT ![t] = FALSE]
    /\ resp_header' = [resp_header EXCEPT ![t] = None]
    /\ transport_log' = [transport_log EXCEPT ![t] = <<>>]
    /\ thrown' = [thrown EXCEPT ![t] = NoException]
    /\ slept' = [slept EXCEPT ![t] = <<>>]
    /\ proposed' = [proposed EXCEPT ![t] = 0]
    /\ proposals' = [proposals EXCEPT ![t] = <<>>]
    /\ passed' = [passed EXCEPT ![t] = <<None, None, None, None>>]
    /\ closed' = [closed EXCEPT ![t] = {}]
    /\ exit_reason' = [exit_reason EXCEPT ![t] = "none"]
    /\ outcome' = [outcome EXCEPT ![t] = NoOutcome]
    /\ UNCHANGED <<self_vars, rand, probe, core_vars>>

Step(t) ==
    \/ \E ov \in OverrideChoices, strm \in BOOLEAN : Request(t, ov, strm)
    \/ \E r \in ResponseChoices : SessionRequestReturns(t, r[1], r[2])
    \/ \E cls \in ExceptionChoices : SessionRequestRaises(t, cls)
    \/ Sleep(t)
    \/ Exit(t)

\* One thread calls request(), any number of times in sequence.
Next == Step("t1")

Spec == Init /\ [][Next]_vars

\* ------------------------------------------- calls on more than one thread
\* One executor with the largest budget; each thread calls request() with
\* the defaults or with its own max_retries and max_backoff_total.
InitConcurrent ==
    /\ Init
    /\ self_max_retries = MaxRetriesChoice
    /\ self_max_backoff_total = MaxTotal

ConcurrentOverrides ==
    { <<None, None, None, None>>, <<Some(1), None, None, Some(1)>> }

\* Any thread takes the next step of its call; the Transport answers 200 or
\* 503 or times out.
NextConcurrent ==
    \E t \in Threads :
        \/ \E ov \in ConcurrentOverrides : Request(t, ov, FALSE)
        \/ \E status \in {200, 503} : SessionRequestReturns(t, status, None)
        \/ SessionRequestRaises(t, "ReadTimeout")
        \/ Sleep(t)
        \/ Exit(t)

SpecConcurrent == InitConcurrent /\ [][NextConcurrent]_vars

\* ------------------------------------------------- two instances built alike
\* Two instances with the same configuration, jitter and seed; thread t1
\* calls the first and thread t2 the second.
InitTwin ==
    /\ Construct([t \in Threads |-> IF t = "t1" THEN "e1" ELSE "e2"])
    /\ CoreAtRest
    /\ self_max_retries = MaxRetriesChoice
    /\ self_backoff_jitter = MaxJitter

TwinOverrides ==
    { <<None, None, None, None>>, <<None, None, Some(0), None>> }

TwinResponses ==
    { <<200, None>>, <<503, None>>, <<429, None>>, <<429, Some(<<" ", "2">>)>> }

\* What a call has been fed so far: its arguments, the Transport's answers
\* and the returns of the sleep function.
Fed(t) ==
    <<pc[t] # "idle", passed[t], stream[t], transport_log[t], thrown[t],
      resp_header[t], Len(slept[t])>>

\* The first instance is called, answered by its Transport and woken by its
\* sleep function in any way; the second is then fed the same, so that both
\* go through the same calls with the same Transport outcomes.
NextTwin ==
    \/ Fed("t1") = Fed("t2") /\
           \E ov \in TwinOverrides : Request("t1", ov, FALSE)
    \/ Fed("t1") = Fed("t2") /\
           \E r \in TwinResponses : SessionRequestReturns("t1", r[1], r[2])
    \/ Fed("t1") = Fed("t2") /\ SessionRequestRaises("t1", "ReadTimeout")
    \/ Fed("t1") = Fed("t2") /\ Sleep("t1")
    \/ Fed("t1") = Fed("t2") /\ Exit("t1")
    \/ pc["t1"] # "idle" /\ Request("t2", passed["t1"], stream["t1"])
    \/ Len(transport_log["t2"]) < Len(transport_log["t1"])
          /\ transport_log["t1"][Len(transport_log["t2"]) + 1] # 0
          /\ SessionRequestReturns("t2",
                 transport_log["t1"][Len(transport_log["t2"]) + 1],
                 resp_header["t1"])
    \/ Len(transport_log["t2"]) < Len(transport_log["t1"])
          /\ transport_log["t1"][Len(transport_log["t2"]) + 1] = 0
          /\ SessionRequestRaises("t2", thrown["t1"].cls)
    \/ Len(slept["t2"]) < Len(slept["t1"]) /\ Sleep("t2")
    \/ pc["t1"] = "idle" /\ Exit("t2")

SpecTwin == InitTwin /\ [][NextTwin]_vars

\* ------------------------------------------------- the helpers on their own
\* The largest status handed to _is_retryable_status, the largest index
\* handed to _compute_backoff, and the retries of the calls made here.
MaxStatus == 700
MaxIndex == 10
HelperRetries == 6

StatusCodes == (0 - 1) .. MaxStatus
BackoffBases == 0 .. (MaxBase + 1)
NoJitter == {0 - 1, 0}

\* Calls without jitter and with a budget that covers every sleep.
HelperOverrides ==
    { <<Some(HelperRetries), Some(b), Some(j), Some(b * Pow2(HelperRetries))>> :
        b \in BackoffBases, j \in NoJitter }

request_vars ==
    <<pc, stream, eff_max_retries, eff_backoff_base, eff_backoff_jitter,
      eff_max_backoff_total, attempts, cumulative_sleep, last_exception,
      last_response, sleep_seconds, capped, resp_header, transport_log,
      thrown, slept, proposed, proposals, passed, closed, exit_reason,
      outcome>>

\* _is_retryable_status(status), called between two calls of request().
IsRetryableStatusCall(status) ==
    /\ probe = NoProbe
    /\ \A t \in Threads : pc[t] = "idle"
    /\ probe' = [fn |-> "_is_retryable_status", arg |-> status, base |-> 0,
                 jitter |-> 0, ret |-> 0, truth |-> IsRetryableStatus(status)]
    /\ UNCHANGED <<self_vars, rand, request_vars, core_vars>>

\* _compute_backoff(attempt_index, base=, jitter=), called between two calls
\* of request().
ComputeBackoffCall(attempt_index, base, jitter) ==
    /\ probe = NoProbe
    /\ \A t \in Threads : pc[t] = "idle"
    /\ LET r == ComputeBackoff(rand["e1"], attempt_index, base, jitter)
       IN /\ probe' = [fn |-> "_compute_backoff", arg |-> attempt_index,
                       base |-> base, jitter |-> jitter, ret |-> r.value,
                       truth |-> FALSE]
          /\ rand' = Draw(rand, "e1", r.rand)
    /\ UNCHANGED <<self_vars, request_vars, core_vars>>

\* The helper's caller is done with the result.
HelperReturns ==
    /\ probe # NoProbe
    /\ probe' = NoProbe
    /\ UNCHANGED <<self_vars, rand, request_vars, core_vars>>

\* request() is called when no helper call is under way.
HelperRequest(ov) == probe = NoProbe /\ Request("t1", ov, FALSE)

\* Helpers called on their own, and calls of request() without jitter whose
\* Transport answers 503 or times out.
NextHelpers ==
    \/ \E status \in StatusCodes : IsRetryableStatusCall(status)
    \/ \E n \in 1 .. MaxIndex, b \in BackoffBases, j \in NoJitter :
           ComputeBackoffCall(n, b, j)
    \/ HelperReturns
    \/ \E ov \in HelperOverrides : HelperRequest(ov)
    \/ SessionRequestReturns("t1", 503, None)
    \/ SessionRequestRaises("t1", "ReadTimeout")
    \/ Sleep("t1")
    \/ Exit("t1")

\* One executor, constructed without jitter.
InitHelpers ==
    /\ Init
    /\ self_max_retries = MaxRetriesChoice
    /\ self_backoff_jitter = 0
    /\ self_max_backoff_total = MaxTotal

SpecHelpers == InitHelpers /\ [][NextHelpers]_vars

\* --------------------------------------- utils/download_core.get_session
MaxCalls == 2   \* calls of get_session() a thread makes

http_vars == <<self_vars, rand, request_vars, probe>>

\* Every Session object created so far.
SessionsCreated == UNION {gs_created[w] : w \in Workers}

\* requests.Session() builds an object that is none of the existing ones;
\* objects are numbered in the order of their creation.
NewSession == Cardinality(SessionsCreated) + 1

\* An attribute set on one global object is seen by every thread.
StoreThreadLocal_Global(tl, w, v) == [u \in DOMAIN tl |-> Some(v)]

\* _thread_local.session = session: threading.local keeps the attribute of
\* the calling thread only.
StoreThreadLocal(tl, w, v) == [tl EXCEPT ![w] = Some(v)]

\* get_session() is called: hasattr(_thread_local, 'session') is tested.
GetSession(w) ==
    /\ gs_pc[w] = "idle"
    /\ Len(gs_returned[w]) < MaxCalls
    /\ gs_pc' = [gs_pc EXCEPT ![w] =
                    IF tl_session[w] = None THEN "create" ELSE "return"]
    /\ UNCHANGED <<http_vars, items_vars, write_vars, path_vars, tl_session, gs_session, gs_created, gs_returned>>

\* session = requests.Session(), its headers and its adapters.
SessionCreate(w) ==
    /\ gs_pc[w] = "create"
    /\ gs_session' = [gs_session EXCEPT ![w] = NewSession]
    /\ gs_created' = [gs_created EXCEPT ![w] = @ \cup {NewSession}]
    /\ gs_pc' = [gs_pc EXCEPT ![w] = "store"]
    /\ UNCHANGED <<http_vars, items_vars, write_vars, path_vars, tl_session, gs_returned>>

\* _thread_local.session = session
SessionStore(w) ==
    /\ gs_pc[w] = "store"
    /\ tl_session' = StoreThreadLocal(tl_session, w, gs_session[w])
    /\ gs_pc' = [gs_pc EXCEPT ![w] = "return"]
    /\ UNCHANGED <<http_vars, items_vars, write_vars, path_vars, gs_session, gs_created, gs_returned>>

\* return _thread_local.session
GetSessionReturns(w) ==
    /\ gs_pc[w] = "return"
    /\ gs_returned' = [gs_returned EXCEPT ![w] = Append(@, tl_session[w][1])]
    /\ gs_session' = [gs_session EXCEPT ![w] = 0]
    /\ gs_pc' = [gs_pc EXCEPT ![w] = "idle"]
    /\ UNCHANGED <<http_vars, items_vars, write_vars, path_vars, tl_session, gs_created>>

\* Any thread takes the next step of its call of get_session().
NextSession ==
    \E w \in Workers :
        \/ GetSession(w)
        \/ SessionCreate(w)
        \/ SessionStore(w)
        \/ GetSessionReturns(w)

\* The module is loaded; no call of request() is made.
InitSession ==
    /\ Init
    /\ self_max_retries = MaxRetriesChoice
    /\ self_backoff_base = MaxBase
    /\ self_backoff_jitter = 0
    /\ self_max_backoff_total = MaxTotal

SpecSession == InitSession /\ [][NextSession]_vars

\* ---------------------------- utils/download_core.write_temp_then_replace
MaxChunks == 2   \* chunks stream_iterable yields

\* A chunk is a sequence of bytes; the empty chunk is skipped by the loop.
Chunks == {<<>>, <<1>>, <<2, 3>>}

\* The iterables: up to MaxChunks chunks, then the end or an exception.
Iterables == UNION {[1 .. n -> Chunks] : n \in 0 .. MaxChunks}

\* The bytes of the chunks, in order.
RECURSIVE Concat(_)
Concat(chunks) ==
    IF chunks = <<>> THEN <<>> ELSE Head(chunks) \o Concat(Tail(chunks))

\* A temporary file just created: nothing in the writer's buffer, nothing
\* in the file, nothing on disk.
EmptyTemp == [buffer |-> <<>>, file |-> <<>>, durable |-> <<>>]

\* write_temp_then_replace(target_path, stream_iterable) is called.
WriteTempThenReplace(w, chunks, raises) ==
    /\ wt_pc[w] \in {"idle", "done"}
    /\ wt_pc' = [wt_pc EXCEPT ![w] = "mkdir"]
    /\ wt_chunks' = [wt_chunks EXCEPT ![w] = chunks]
    /\ wt_raises' = [wt_raises EXCEPT ![w] = raises]
    /\ wt_total' = [wt_total EXCEPT ![w] = 0]
    /\ wt_before' = [wt_before EXCEPT ![w] = fs_target]
    /\ wt_input' = [wt_input EXCEPT ![w] = chunks]
    /\ wt_result' = [wt_result EXCEPT ![w] = NoResult]
    /\ UNCHANGED <<http_vars, items_vars, session_vars, path_vars, fs_target, wt_temp, fs_temp>>

\* target_path.parent.mkdir(parents=True, exist_ok=True)
Mkdir(w) ==
    /\ wt_pc[w] = "mkdir"
    /\ wt_pc' = [wt_pc EXCEPT ![w] = "create"]
    /\ UNCHANGED <<http_vars, items_vars, session_vars, path_vars, fs_target, wt_chunks,
                   wt_raises, wt_temp, fs_temp, wt_total, wt_before, wt_input,
                   wt_result>>

\* mkdir raises: the statement is outside the try block, the OSError reaches
\* the caller as it is.
MkdirRaises(w) ==
    /\ wt_pc[w] = "mkdir"
    /\ wt_pc' = [wt_pc EXCEPT ![w] = "done"]
    /\ wt_result' = [wt_result EXCEPT ![w] =
                        [kind |-> "raised", value |-> 0, cls |-> "OSError"]]
    /\ UNCHANGED <<http_vars, items_vars, session_vars, path_vars, fs_target, wt_chunks,
                   wt_raises, wt_temp, fs_temp, wt_total, wt_before, wt_input>>

\* The temporary file of a thread; the file is there under its name.
TempFile(w) == fs_temp[wt_temp[w][1]][1]
TempExists(w) == wt_temp[w] # None /\ fs_temp[wt_temp[w][1]] # None

\* A name every call gets.
FreshNames_FixedName(temps) == {1}

\* NamedTemporaryFile creates the file exclusively: the name it settles on
\* is one under which no file exists.
FreshNames(temps) == {n \in TempNames : temps[n] = None}

\* temp_file = NamedTemporaryFile(mode='wb', delete=False, dir=parent, ...);
\* temp_path = Path(temp_file.name)
CreateTemp(w) ==
    /\ wt_pc[w] = "create"
    /\ \E name \in FreshNames(fs_temp) :
           /\ wt_temp' = [wt_temp EXCEPT ![w] = Some(name)]
           /\ fs_temp' = [fs_temp EXCEPT ![name] = Some(EmptyTemp)]
    /\ wt_pc' = [wt_pc EXCEPT ![w] = "write"]
    /\ UNCHANGED <<http_vars, items_vars, session_vars, path_vars, fs_target, wt_chunks,
                   wt_raises, wt_total, wt_before, wt_input, wt_result>>

\* A chunk written straight to target_path.
WriteChunk_ToTarget(w) ==
    /\ wt_pc[w] = "write"
    /\ wt_chunks[w] # <<>>
    /\ LET chunk == Head(wt_chunks[w])
       IN /\ fs_target' =
                 IF chunk # <<>>
                 THEN Some((IF fs_target = None THEN <<>> ELSE fs_target[1])
                           \o chunk)
                 ELSE fs_target
          /\ wt_total' = [wt_total EXCEPT ![w] = @ + Len(chunk)]
    /\ wt_chunks' = [wt_chunks EXCEPT ![w] = Tail(@)]
    /\ UNCHANGED <<http_vars, items_vars, session_vars, path_vars, wt_temp, fs_temp, wt_pc,
                   wt_raises, wt_before, wt_input, wt_result>>

\* for chunk in stream_iterable: if chunk: temp_file.write(chunk);
\* total_bytes += len(chunk)
WriteChunk(w) ==
    /\ wt_pc[w] = "write"
    /\ wt_chunks[w] # <<>>
    /\ TempExists(w)
    /\ LET chunk == Head(wt_chunks[w])
           temp == TempFile(w)
       IN /\ fs_temp' = [fs_temp EXCEPT ![wt_temp[w][1]] =
                            IF chunk # <<>>
                            THEN Some([temp EXCEPT !.buffer = @ \o chunk])
                            ELSE @]
          /\ wt_total' = [wt_total EXCEPT ![w] = @ + Len(chunk)]
    /\ wt_chunks' = [wt_chunks EXCEPT ![w] = Tail(@)]
    /\ UNCHANGED <<http_vars, items_vars, session_vars, path_vars, fs_target, wt_pc,
                   wt_raises, wt_temp, wt_before, wt_input, wt_result>>

\* stream_iterable is exhausted: the loop ends.
IterableEnds(w) ==
    /\ wt_pc[w] = "write"
    /\ wt_chunks[w] = <<>>
    /\ ~wt_raises[w]
    /\ wt_pc' = [wt_pc EXCEPT ![w] = "flush"]
    /\ UNCHANGED <<http_vars, items_vars, session_vars, path_vars, fs_target, wt_chunks,
                   wt_raises, wt_temp, fs_temp, wt_total, wt_before, wt_input,
                   wt_result>>

\* stream_iterable raises an Exception instead of yielding or ending.
IterableRaises(w) ==
    /\ wt_pc[w] = "write"
    /\ wt_chunks[w] = <<>>
    /\ wt_raises[w]
    /\ wt_pc' = [wt_pc EXCEPT ![w] = "cleanup"]
    /\ UNCHANGED <<http_vars, items_vars, session_vars, path_vars, fs_target, wt_chunks,
                   wt_raises, wt_temp, fs_temp, wt_total, wt_before, wt_input,
                   wt_result>>

\* temp_file.flush(): the buffer goes to the file.
Flush(w) ==
    /\ wt_pc[w] = "flush"
    /\ TempExists(w)
    /\ LET temp == TempFile(w)
       IN fs_temp' = [fs_temp EXCEPT ![wt_temp[w][1]] =
                         Some([temp EXCEPT !.file = @ \o temp.buffer,
                                           !.buffer = <<>>])]
    /\ wt_pc' = [wt_pc EXCEPT ![w] = "fsync"]
    /\ UNCHANGED <<http_vars, items_vars, session_vars, path_vars, fs_target, wt_chunks,
                   wt_raises, wt_temp, wt_total, wt_before, wt_input,
                   wt_result>>

\* os.fsync(temp_file.fileno()): the file goes to disk.
Fsync(w) ==
    /\ wt_pc[w] = "fsync"
    /\ TempExists(w)
    /\ LET temp == TempFile(w)
       IN fs_temp' = [fs_temp EXCEPT ![wt_temp[w][1]] =
                         Some([temp EXCEPT !.durable = temp.file])]
    /\ wt_pc' = [wt_pc EXCEPT ![w] = "close"]
    /\ UNCHANGED <<http_vars, items_vars, session_vars, path_vars, fs_target, wt_chunks,
                   wt_raises, wt_temp, wt_total, wt_before, wt_input,
                   wt_result>>

\* temp_file.close()
CloseTemp(w) ==
    /\ wt_pc[w] = "close"
    /\ TempExists(w)
    /\ LET temp == TempFile(w)
       IN fs_temp' = [fs_temp EXCEPT ![wt_temp[w][1]] =
                         Some([temp EXCEPT !.file = @ \o temp.buffer,
                                           !.buffer = <<>>])]
    /\ wt_pc' = [wt_pc EXCEPT ![w] = "replace"]
    /\ UNCHANGED <<http_vars, items_vars, session_vars, path_vars, fs_target, wt_chunks,
                   wt_raises, wt_temp, wt_total, wt_before, wt_input,
                   wt_result>>

\* os.replace(temp_path, target_path); return total_bytes. The rename is
\* one step of the file system: the target has the content of the
\* temporary file and the temporary name is gone.
Replace(w) ==
    /\ wt_pc[w] = "replace"
    /\ TempExists(w)
    /\ fs_target' = Some(TempFile(w).file)
    /\ fs_temp' = [fs_temp EXCEPT ![wt_temp[w][1]] = None]
    /\ wt_temp' = [wt_temp EXCEPT ![w] = None]
    /\ wt_pc' = [wt_pc EXCEPT ![w] = "done"]
    /\ wt_result' = [wt_result EXCEPT ![w] =
                        [kind |-> "returned", value |-> wt_total[w],
                         cls |-> "None"]]
    /\ UNCHANGED <<http_vars, items_vars, session_vars, path_vars, wt_chunks, wt_raises,
                   wt_total, wt_before, wt_input>>

\* A statement of the try block raises an Exception: NamedTemporaryFile,
\* temp_file.write, flush, os.fsync, close or os.replace.
WriteStepRaises(w) ==
    /\ \/ wt_pc[w] \in {"create", "flush", "fsync", "close", "replace"}
       \/ /\ wt_pc[w] = "write"
          /\ wt_chunks[w] # <<>>
          /\ Head(wt_chunks[w]) # <<>>
    /\ wt_pc' = [wt_pc EXCEPT ![w] = "cleanup"]
    /\ UNCHANGED <<http_vars, items_vars, session_vars, path_vars, fs_target, wt_chunks,
                   wt_raises, wt_temp, fs_temp, wt_total, wt_before, wt_input,
                   wt_result>>

\* except Exception: close the temporary file, unlink it if it exists,
\* raise Exception("Failed to write ...").
Cleanup(w) ==
    /\ wt_pc[w] = "cleanup"
    /\ fs_temp' = IF wt_temp[w] # None
                  THEN [fs_temp EXCEPT ![wt_temp[w][1]] = None]
                  ELSE fs_temp
    /\ wt_temp' = [wt_temp EXCEPT ![w] = None]
    /\ wt_pc' = [wt_pc EXCEPT ![w] = "done"]
    /\ wt_result' = [wt_result EXCEPT ![w] =
                        [kind |-> "raised", value |-> 0, cls |-> "Exception"]]
    /\ UNCHANGED <<http_vars, items_vars, session_vars, path_vars, fs_target, wt_chunks,
                   wt_raises, wt_total, wt_before, wt_input>>

\* One thread writes the target, call after call.
NextWrite ==
    \/ \E chunks \in Iterables, raises \in BOOLEAN :
           WriteTempThenReplace("w1", chunks, raises)
    \/ Mkdir("w1")
    \/ MkdirRaises("w1")
    \/ CreateTemp("w1")
    \/ WriteChunk("w1")
    \/ IterableEnds("w1")
    \/ IterableRaises("w1")
    \/ Flush("w1")
    \/ Fsync("w1")
    \/ CloseTemp("w1")
    \/ Replace("w1")
    \/ WriteStepRaises("w1")
    \/ Cleanup("w1")

SpecWrite == InitSession /\ [][NextWrite]_vars

\* Two threads write the same target at the same time, one call each.
Writers == {"w1", "w2"}

\* What the two threads may write: one chunk, another chunk, two chunks.
ConcurrentIterables ==
    { << <<1>> >>, << <<2, 3>> >>, << <<2, 3>>, <<1>> >> }

NextWriteConcurrent ==
    \E w \in Writers :
        \/ \E chunks \in ConcurrentIterables, raises \in BOOLEAN :
               wt_pc[w] = "idle" /\ WriteTempThenReplace(w, chunks, raises)
        \/ Mkdir(w)
        \/ MkdirRaises(w)
        \/ CreateTemp(w)
        \/ WriteChunk(w)
        \/ IterableEnds(w)
        \/ IterableRaises(w)
        \/ Flush(w)
        \/ Fsync(w)
        \/ CloseTemp(w)
        \/ Replace(w)
        \/ WriteStepRaises(w)
        \/ Cleanup(w)

SpecWriteConcurrent == InitSession /\ [][NextWriteConcurrent]_vars

\* ------------------------------- utils/download_core.ensure_unique_path
MaxFiles == 3   \* largest numeric suffix of a name that may exist

\* f"{base_name}{ext}"
OriginalName == <<"base", ".ext">>

\* f"{base_name} ({counter}){ext}"
SuffixedName(counter) == <<"base", " (", counter, ")", ".ext">>

\* The names other programs may create in dest_dir.
Names == {OriginalName} \cup {SuffixedName(n) : n \in 0 .. MaxFiles}

\* A loop that tries every other suffix.
NextCounter_Skips(counter) == counter + 2

\* counter += 1
NextCounter(counter) == counter + 1

\* A file of dest_dir is created while no call is under way.
CreateFile(name) ==
    /\ eu_pc \in {"idle", "done"}
    /\ name \notin fs_names
    /\ fs_names' = fs_names \cup {name}
    /\ UNCHANGED <<http_vars, items_vars, session_vars, write_vars, eu_pc, eu_counter,
                   eu_before, eu_result>>

\* A file of dest_dir is removed while no call is under way.
RemoveFile(name) ==
    /\ eu_pc \in {"idle", "done"}
    /\ name \in fs_names
    /\ fs_names' = fs_names \ {name}
    /\ UNCHANGED <<http_vars, items_vars, session_vars, write_vars, eu_pc, eu_counter,
                   eu_before, eu_result>>

\* ensure_unique_path(dest_dir, base_name, ext) is called.
EnsureUniquePath ==
    /\ eu_pc \in {"idle", "done"}
    /\ eu_pc' = "original"
    /\ eu_counter' = 0
    /\ eu_before' = fs_names
    /\ eu_result' = None
    /\ UNCHANGED <<http_vars, items_vars, session_vars, write_vars, fs_names>>

\* target = dest_path / f"{base_name}{ext}"; return it if it does not
\* exist, else counter = 1.
TryOriginal ==
    /\ eu_pc = "original"
    /\ IF OriginalName \notin fs_names
       THEN /\ eu_result' = Some(OriginalName)
            /\ eu_pc' = "done"
            /\ UNCHANGED eu_counter
       ELSE /\ eu_counter' = 1
            /\ eu_pc' = "suffixed"
            /\ UNCHANGED eu_result
    /\ UNCHANGED <<http_vars, items_vars, session_vars, write_vars, fs_names, eu_before>>

\* target = dest_path / f"{base_name} ({counter}){ext}"; return it if it
\* does not exist, else counter += 1.
TrySuffixed ==
    /\ eu_pc = "suffixed"
    /\ IF SuffixedName(eu_counter) \notin fs_names
       THEN /\ eu_result' = Some(SuffixedName(eu_counter))
            /\ eu_pc' = "done"
            /\ UNCHANGED eu_counter
       ELSE /\ eu_counter' = NextCounter(eu_counter)
            /\ UNCHANGED <<eu_pc, eu_result>>
    /\ UNCHANGED <<http_vars, items_vars, session_vars, write_vars, fs_names, eu_before>>

\* Files come and go between the calls of ensure_unique_path().
NextPath ==
    \/ \E name \in Names : CreateFile(name)
    \/ \E name \in Names : RemoveFile(name)
    \/ EnsureUniquePath
    \/ TryOriginal
    \/ TrySuffixed

SpecPath == InitSession /\ [][NextPath]_vars

\* ------------------------------------ image_downloader._get_all_items
MaxBlocks == 3   \* pieces a page is made of
MaxLimit == 2    \* largest limit

\* A page is a sequence of tokens, each standing for a piece of text:
\*   "M"  class="rg_meta notranslate">      "T"  rg_meta notranslate
\*   "{"  {     "}"  }     "D"  </div>      "x"  other text
\*   "a", "b"  the member "ou": "a" or "ou": "b" of a JSON object
\* An index into a page counts tokens from 0, as str.find counts characters.
Links == {"a", "b"}
SingleChar == {"{", "}", "x"}

\* The pieces pages are made of: well-formed blocks, a block with an empty
\* object, one with broken JSON, one with the class name only, an object
\* without a marker, a block that is not closed, text, a marker alone.
Segments ==
    { <<"M", "{", "a", "}", "D">>, <<"M", "{", "b", "}", "D">>,
      <<"M", "{", "}", "D">>, <<"M", "{", "a", "D">>,
      <<"T", "{", "a", "}", "D">>, <<"{", "b", "}", "D">>,
      <<"M", "{", "b", "}">>, <<"x">>, <<"M">> }

Pages ==
    {Concat(q) : q \in UNION {[1 .. n -> Segments] : n \in 0 .. MaxBlocks}}

Limits == (0 - 1) .. MaxLimit

Min(a, b) == IF a <= b THEN a ELSE b

\* page.find(text, start): the first index >= start where one of the tokens
\* that contain the text stands, -1 if there is none. The start index is
\* computed once, as the argument of a call is.
Find(page, tokens, start) ==
    [s \in Int |->
        LET from == Max(s, 0)
            last == Len(page) - 1
        IN IF \A i \in from .. last : page[i + 1] \notin tokens
           THEN 0 - 1
           ELSE CHOOSE i \in from .. last :
                    /\ page[i + 1] \in tokens
                    /\ \A j \in from .. (i - 1) : page[j + 1] \notin tokens][start]

\* page[lo:hi]: a negative index counts from the end, indexes are clipped.
PyIndex(i, n) == IF i < 0 THEN Max(n + i, 0) ELSE Min(i, n)
PySlice(page, lo, hi) ==
    SubSeq(page, PyIndex(lo, Len(page)) + 1, PyIndex(hi, Len(page)))

\* text[:-1]: the last character is cut off; what is left of a token of
\* several characters is a fragment.
CutLastChar(text) ==
    IF text = <<>> THEN <<>>
    ELSE IF text[Len(text)] \in SingleChar
         THEN SubSeq(text, 1, Len(text) - 1)
         ELSE SubSeq(text, 1, Len(text) - 1) \o <<"?">>

\* str(page[start_object:end_object]). With start_object = -1 the slice
\* starts at the last character and is empty; with end_object = -1 it ends
\* before the last character.
ObjectRaw(page, start_object, end_object) ==
    IF start_object = 0 - 1 THEN <<>>
    ELSE IF end_object = 0 - 1
         THEN CutLastChar(PySlice(page, start_object, Len(page)))
         ELSE PySlice(page, start_object, end_object)

\* What _get_next_item returns as its item: "no_links", or a dict, which is
\* empty or has the member ou.
NoLinks == [kind |-> "no_links", ou |-> <<>>]
EmptyDict == [kind |-> "dict", ou |-> <<>>]
Dict(link) == [kind |-> "dict", ou |-> <<link>>]

\* json.loads of the decoded text; {} when it raises.
JsonLoads(text) ==
    IF /\ Len(text) = 3
       /\ text[1] = "{"
       /\ text[2] \in Links
       /\ text[3] = "}"
    THEN Dict(text[2])
    ELSE EmptyDict

\* return final_object, end_object: the object between two indexes, each
\* index computed once.
FinalObject(page) ==
    [start_object \in Int |-> [end_object \in Int |->
        [item |-> JsonLoads(ObjectRaw(page, start_object, end_object)),
         end |-> end_object, start |-> start_object]]]

\* _get_next_item(page): the item, end_object, and start_object.
GetNextItem(page) ==
    IF Find(page, {"M", "T"}, 0) = 0 - 1
    THEN [item |-> NoLinks, end |-> 0, start |-> 0]
    ELSE LET start_line == Find(page, {"M"}, 0)
             start_object == Find(page, {"{"}, start_line + 1)
             end_object == Find(page, {"D"}, start_object + 1)
         IN FinalObject(page)[start_object][end_object]

\* `not item`: the empty dict is false, the string "no_links" is not.
Falsy(item) == item.kind = "dict" /\ item.ou = <<>>

\* _format_object(obj)
FormatObject(obj) ==
    [image_link |-> IF obj.ou = <<>> THEN "" ELSE obj.ou[1]]

\* A loop that scans the whole page again.
RestOfPage_Whole(page, end_content) == page

\* page[end_content:] if end_content > 0 else ""
RestOfPage(page, end_content) ==
    IF end_content > 0 THEN PySlice(page, end_content, Len(page)) ELSE <<>>

\* A caller holds a page and a limit and is about to call
\* _get_all_items(page, limit).
InitItems ==
    /\ Construct([t \in Threads |-> "e1"])
    /\ self_max_retries = MaxRetriesChoice
    /\ self_backoff_base = MaxBase
    /\ self_backoff_jitter = 0
    /\ self_max_backoff_total = MaxTotal
    /\ LibraryAtRest
    /\ gi_pc = "idle"
    /\ gi_input \in Pages
    /\ gi_page = gi_input
    /\ gi_limit \in Limits
    /\ gi_items = <<>>
    /\ gi_count = 0
    /\ gi_offsets = <<>>

\* _get_all_items(page, limit) is called: items = [], count = 0.
GetAllItems ==
    /\ gi_pc = "idle"
    /\ gi_pc' = "loop"
    /\ gi_items' = <<>>
    /\ gi_count' = 0
    /\ gi_offsets' = <<>>
    /\ UNCHANGED <<http_vars, session_vars, write_vars, path_vars, gi_page,
                   gi_limit, gi_input>>

\* while count < limit: the test fails, return items.
LoopEnds ==
    /\ gi_pc = "loop"
    /\ ~(gi_count < gi_limit)
    /\ gi_pc' = "done"
    /\ UNCHANGED <<http_vars, session_vars, write_vars, path_vars, gi_page,
                   gi_limit, gi_items, gi_count, gi_input, gi_offsets>>

\* One pass through the body of the loop, to a break or to the next test.
Iterate ==
    /\ gi_pc = "loop"
    /\ gi_count < gi_limit
    /\ \E r \in {GetNextItem(gi_page)} :
          \E rest \in {RestOfPage(gi_page, r.end)} :
          IF r.item = NoLinks \/ Falsy(r.item)
          THEN /\ gi_pc' = "done"
               /\ UNCHANGED <<gi_page, gi_items, gi_count, gi_offsets>>
          ELSE /\ gi_items' = Append(gi_items, FormatObject(r.item))
               /\ gi_count' = gi_count + 1
               /\ gi_offsets' =
                      Append(gi_offsets,
                             Len(gi_input) - Len(gi_page) + r.start)
               /\ gi_page' = rest
               /\ gi_pc' = IF rest = <<>> THEN "done" ELSE "loop"
    /\ UNCHANGED <<http_vars, session_vars, write_vars, path_vars, gi_limit,
                   gi_input>>

\* One call per behaviour: the function keeps nothing between calls.
NextItems ==
    \/ GetAllItems
    \/ LoopEnds
    \/ Iterate

\* The function does not block: a call under way takes its next step.
SpecItems ==
    /\ InitItems
    /\ [][NextItems]_vars
    /\ WF_vars(LoopEnds)
    /\ WF_vars(Iterate)

\* ------------------------------------------- calls whose callees return
\* The Transport call under way returns or raises.
TransportAnswers(t) ==
    \/ \E r \in ResponseChoices : SessionRequestReturns(t, r[1], r[2])
    \/ \E cls \in ExceptionChoices : SessionRequestRaises(t, cls)

\* One executor with the largest number of retries and the largest budget;
\* the overrides of a call bring in the other configurations.
InitLive ==
    /\ Init
    /\ self_max_retries = MaxRetriesChoice
    /\ self_backoff_base = MaxBase
    /\ self_backoff_jitter = 0
    /\ self_max_backoff_total = MaxTotal

\* request() blocks in session.request() and in the sleep function only:
\* every Transport call and every sleep returns.
SpecLive ==
    /\ InitLive
    /\ [][Next]_vars
    /\ WF_vars(TransportAnswers("t1"))
    /\ WF_vars(Sleep("t1"))

\* ------------------------------------------------------------------ claims
Calls(t) == Len(transport_log[t])
LastEntry(t) == transport_log[t][Len(transport_log[t])]
LastCallReturned(t) == Calls(t) >= 1 /\ LastEntry(t) # 0
LastCallRaised(t) == Calls(t) >= 1 /\ LastEntry(t) = 0

RECURSIVE SumSeq(_)
SumSeq(q) == IF q = <<>> THEN 0 ELSE Head(q) + SumSeq(Tail(q))

\* C1: the recorded last failure is cleared at the start of each attempt:
\* whenever a Transport call is being issued no exception of an earlier
\* attempt is recorded, and a fault raised at the end of a call is the fault
\* thrown by the final Transport call.
C1_LastFailureCleared ==
    \A t \in Threads :
        /\ pc[t] = "attempting" => last_exception[t] = NoException
        /\ (pc[t] = "done" /\ outcome[t].kind = "raised") =>
               /\ LastCallRaised(t)
               /\ outcome[t].id = Calls(t)

\* C2: when the final Transport call returned a response, the outcome is
\* that response if its status is 2xx and its validation failure otherwise;
\* when it raised, the outcome is that fault.
C2_OutcomeFromFinalAttempt ==
    \A t \in Threads :
        pc[t] = "done" =>
            /\ outcome[t].id = Calls(t)
            /\ LastCallReturned(t) =>
                   outcome[t].kind =
                       IF 200 <= LastEntry(t) /\ LastEntry(t) <= 299
                       THEN "returned" ELSE "HTTPError"
            /\ LastCallRaised(t) =>
                   outcome[t].kind = "raised" /\ outcome[t].cls = thrown[t].cls

\* C3: with max_backoff_total >= 0 the sum of the values passed to the sleep
\* function never exceeds max_backoff_total, also counting the sleep about to
\* be made, and a wanted sleep that would overshoot is cut to exactly
\* max_backoff_total - cumulative_sleep.
C3_SleepWithinBudget ==
    \A t \in Threads :
        eff_max_backoff_total[t] >= 0 =>
            /\ SumSeq(slept[t]) <= eff_max_backoff_total[t]
            /\ cumulative_sleep[t] = SumSeq(slept[t])
            /\ pc[t] = "sleeping" =>
                   /\ SumSeq(slept[t]) + sleep_seconds[t] <= eff_max_backoff_total[t]
                   /\ sleep_seconds[t] =
                          IF SumSeq(slept[t]) + proposed[t] > eff_max_backoff_total[t]
                          THEN eff_max_backoff_total[t] - SumSeq(slept[t])
                          ELSE proposed[t]

\* C3 witness: after an earlier sleep, a wanted sleep overshoots and is cut to
\* the positive remainder of the budget.
C3_Witness ==
    /\ pc["t1"] = "sleeping"
    /\ slept["t1"] # <<>>
    /\ SumSeq(slept["t1"]) > 0
    /\ proposed["t1"] > sleep_seconds["t1"]
    /\ sleep_seconds["t1"] > 0

\* C4: with max_retries >= 0, attempts never exceeds max_retries and a call
\* issues at most max_retries + 1 Transport calls.
C4_AttemptsWithinMaxRetries ==
    \A t \in Threads :
        eff_max_retries[t] >= 0 =>
            /\ attempts[t] <= eff_max_retries[t]
            /\ Calls(t) <= eff_max_retries[t] + 1

\* C4 witness: every retry was used, after a retried status and a retried
\* exception, and the last allowed Transport call was made.
C4_Witness ==
    /\ pc["t1"] = "done"
    /\ eff_max_retries["t1"] >= 2
    /\ attempts["t1"] = eff_max_retries["t1"]
    /\ Calls("t1") = eff_max_retries["t1"] + 1
    /\ \E i, j \in 1 .. Calls("t1") :
           transport_log["t1"][i] = 0 /\ transport_log["t1"][j] # 0

AllRetryableStatuses(t) ==
    /\ Calls(t) >= 1
    /\ \A i \in 1 .. Calls(t) :
           \/ transport_log[t][i] = 429
           \/ 500 <= transport_log[t][i] /\ transport_log[t][i] <= 599

\* C5 as stated: after retryable statuses only, with max_retries = k >= 0, a
\* finished call has made exactly k+1 Transport calls and raises the
\* validation failure of the (k+1)th response.
C5_ExactlyKPlusOneCalls ==
    \A t \in Threads :
        (pc[t] = "done" /\ eff_max_retries[t] >= 0 /\ AllRetryableStatuses(t)) =>
            /\ Calls(t) = eff_max_retries[t] + 1
            /\ outcome[t].kind = "HTTPError"
            /\ outcome[t].id = eff_max_retries[t] + 1

\* C5 amended: after retryable statuses only, with max_retries = k >= 0, a
\* finished call has made at most k+1 Transport calls, exactly k+1 unless the
\* budget block ended the loop, and raises the validation failure of the
\* last response it received.
C5_KPlusOneCallsUnlessBudget ==
    \A t \in Threads :
        (pc[t] = "done" /\ eff_max_retries[t] >= 0 /\ AllRetryableStatuses(t)) =>
            /\ Calls(t) <= eff_max_retries[t] + 1
            /\ exit_reason[t] # "budget" => Calls(t) = eff_max_retries[t] + 1
            /\ exit_reason[t] = "budget" => Calls(t) = Len(slept[t]) + 1
            /\ outcome[t].kind = "HTTPError"
            /\ outcome[t].id = Calls(t)

\* C5 witness: three retryable statuses with max_retries = 2, the retries
\* used up.
C5_Witness ==
    /\ pc["t1"] = "done"
    /\ eff_max_retries["t1"] = 2
    /\ AllRetryableStatuses("t1")
    /\ Calls("t1") = 3
    /\ exit_reason["t1"] = "exhausted"
    /\ outcome["t1"].kind = "HTTPError"

\* The retry branch was just taken for the response in hand: the sleep is
\* decided (and about to be made, or refused by the budget block).
RetryDecided(t) ==
    \/ pc[t] = "sleeping"
    \/ pc[t] = "done" /\ exit_reason[t] = "budget"

\* C6: for a 429 with a Retry-After that is a non-negative integer N and
\* attempts left, the sleep wanted for the retry is exactly N.
C6_RetryAfterReplacesBackoff ==
    \A t \in Threads :
        (RetryDecided(t) /\ LastCallReturned(t) /\ LastEntry(t) = 429) =>
            /\ resp_header[t] = Some(<<"0">>) => proposed[t] = 0
            /\ resp_header[t] = Some(<<" ", "2">>) => proposed[t] = 2

\* C6 witness: a 429 with Retry-After 0 where the computed backoff would be
\* positive and jitter is on.
C6_Witness ==
    /\ pc["t1"] = "sleeping"
    /\ LastEntry("t1") = 429
    /\ resp_header["t1"] = Some(<<"0">>)
    /\ eff_backoff_base["t1"] >= 1
    /\ eff_backoff_jitter["t1"] > 0
    /\ proposed["t1"] = 0

\* C7: for a 429 whose Retry-After is missing, not an integer or negative,
\* no exception is recorded for the attempt and the sleep wanted is the
\* computed backoff for the retry index attempts + 1.
C7_MalformedRetryAfterIgnored ==
    \A t \in Threads :
        ( /\ RetryDecided(t) /\ LastCallReturned(t) /\ LastEntry(t) = 429
          /\ resp_header[t] \in {None, Some(<<"a", "b", "c">>), Some(<<"-", "1">>)} ) =>
            /\ last_exception[t].id # Calls(t)
            /\ proposed[t] =
                   eff_backoff_base[t] * Pow2(attempts[t])
                     + (IF eff_backoff_jitter[t] > 0
                        THEN Uniform(Rand(t), eff_backoff_jitter[t]) ELSE 0)

\* C7 witness: a 429 with Retry-After -1 on the second attempt, retried with
\* the computed backoff.
C7_Witness ==
    /\ pc["t1"] = "sleeping"
    /\ LastEntry("t1") = 429
    /\ resp_header["t1"] = Some(<<"-", "1">>)
    /\ attempts["t1"] = 1
    /\ proposed["t1"] >= 2

RetryableClasses ==
    {"ReadTimeout", "ConnectionError", "ProtocolError", "IncompleteRead",
     "BadStatusLine"}

\* C9: when each of the max_retries + 1 Transport calls raised a retryable
\* exception, the call raises the exception of the final attempt, unwrapped.
C9_FinalRetryableExceptionRaised ==
    \A t \in Threads :
        ( /\ pc[t] = "done"
          /\ Calls(t) = eff_max_retries[t] + 1
          /\ \A i \in 1 .. Calls(t) : transport_log[t][i] = 0
          /\ thrown[t].cls \in RetryableClasses ) =>
            /\ thrown[t].id = Calls(t)
            /\ outcome[t].kind = "raised"
            /\ outcome[t].id = thrown[t].id
            /\ outcome[t].cls = thrown[t].cls

\* C9 witness: three faults with max_retries = 2, the last a BadStatusLine.
C9_Witness ==
    /\ pc["t1"] = "done"
    /\ eff_max_retries["t1"] = 2
    /\ transport_log["t1"] = <<0, 0, 0>>
    /\ thrown["t1"] = [cls |-> "BadStatusLine", id |-> 3]
    /\ outcome["t1"].kind = "raised"

\* C10: a fault that is none of timeout, connection error, protocol error,
\* incomplete read, bad status line ends the call at once: it is the fault
\* raised, nothing was slept for it, attempts was not incremented for it and
\* no Transport call follows it.
C10_NonRetryableFaultPropagates ==
    \A t \in Threads :
        (LastCallRaised(t) /\ thrown[t].cls \notin RetryableClasses) =>
            /\ pc[t] = "done"
            /\ thrown[t].id = Calls(t)
            /\ outcome[t].kind = "raised"
            /\ outcome[t].id = thrown[t].id
            /\ outcome[t].cls = thrown[t].cls
            /\ Len(slept[t]) = Calls(t) - 1
            /\ attempts[t] = Calls(t) - 1

\* C10 witness: an InvalidSchema on the second attempt with a retry left.
C10_Witness ==
    /\ pc["t1"] = "done"
    /\ Calls("t1") = 2
    /\ thrown["t1"] = [cls |-> "InvalidSchema", id |-> 2]
    /\ attempts["t1"] < eff_max_retries["t1"]
    /\ outcome["t1"].kind = "raised"

\* C11: a response with a retryable status that is dropped for a retry is
\* closed before the sleep and before the next Transport call: while the call
\* sleeps or issues a Transport call every response received so far is closed,
\* and at all times every response but the latest is closed.
C11_RetriedResponsesClosed ==
    \A t \in Threads :
        \A i \in 1 .. Calls(t) :
            ( /\ transport_log[t][i] # 0
              /\ (i < Calls(t) \/ pc[t] \in {"sleeping", "attempting"}) ) =>
                i \in closed[t]

\* C11 witness: a third Transport call is being issued after a 503 and a 429
\* were dropped, both closed.
C11_Witness ==
    /\ pc["t1"] = "attempting"
    /\ transport_log["t1"] = <<503, 429>>
    /\ closed["t1"] = {1, 2}

\* C12: a final response that fails validation is closed before the failure
\* reaches the caller when the call is not streaming and left open when it is;
\* a response that passes validation and is returned is never closed.
C12_FinalResponseClose ==
    \A t \in Threads :
        pc[t] = "done" =>
            /\ outcome[t].kind = "HTTPError" =>
                   /\ outcome[t].id = Calls(t)
                   /\ RaisesForStatus(LastEntry(t))
                   /\ (outcome[t].id \in closed[t]) <=> ~stream[t]
            /\ outcome[t].kind = "returned" =>
                   /\ outcome[t].id = Calls(t)
                   /\ outcome[t].id \notin closed[t]

\* C12 witness: a streaming call ends with the HTTPError of a 404 that was
\* left open.
C12_Witness ==
    /\ pc["t1"] = "done"
    /\ stream["t1"]
    /\ outcome["t1"].kind = "HTTPError"
    /\ LastEntry("t1") = 404
    /\ Calls("t1") \notin closed["t1"]

\* C13: when a retry is due, the sleep wanted overshoots max_backoff_total and
\* nothing of the budget remains, the call ends without a sleep and without a
\* further Transport call, and its outcome is the failure of the current
\* attempt: the HTTPError of that response, or that exception.
C13_BudgetBreakOutcome ==
    \A t \in Threads :
        (pc[t] = "done" /\ exit_reason[t] = "budget") =>
            /\ Len(slept[t]) = Calls(t) - 1
            /\ outcome[t].id = Calls(t)
            /\ LastCallReturned(t) => outcome[t].kind = "HTTPError"
            /\ LastCallRaised(t) =>
                   /\ outcome[t].kind = "raised"
                   /\ outcome[t].cls = thrown[t].cls

\* The sleeps of the call on which the budget cap triggered: the sleep wanted
\* overshot max_backoff_total and a sleep was performed all the same.
SleptBefore(t, i) == SumSeq(SubSeq(slept[t], 1, i - 1))
CappedSleeps(t) ==
    {i \in 1 .. Len(slept[t]) :
        SleptBefore(t, i) + proposals[t][i] > eff_max_backoff_total[t]}

Resolved(override, default) == IF override = None THEN default ELSE override[1]

\* C16: overrides passed to one call, for any subset of the four retry
\* options, never change the defaults stored by the constructor; every call
\* works with the override where one was passed and with the stored default
\* where none was, so a call without overrides works with the defaults.
C16_OverridesLeaveDefaults ==
    /\ [](\A t \in Threads :
             pc[t] # "idle" =>
                 /\ eff_max_retries[t] = Resolved(passed[t][1], self_max_retries)
                 /\ eff_backoff_base[t] = Resolved(passed[t][2], self_backoff_base)
                 /\ eff_backoff_jitter[t] =
                        Resolved(passed[t][3], self_backoff_jitter)
                 /\ eff_max_backoff_total[t] =
                        Resolved(passed[t][4], self_max_backoff_total))
    /\ [][self_vars' = self_vars]_vars

\* C16 witness: a call that overrode max_retries and max_backoff_total has
\* ended; it worked with the overrides and with the stored base and jitter,
\* and the stored defaults differ from the overrides.
C16_Witness ==
    /\ pc["t1"] = "done"
    /\ passed["t1"] = <<Some(1), None, None, Some(1)>>
    /\ self_max_retries = 2 /\ eff_max_retries["t1"] = 1
    /\ self_max_backoff_total = 3 /\ eff_max_backoff_total["t1"] = 1
    /\ eff_backoff_jitter["t1"] = self_backoff_jitter
    /\ self_backoff_jitter = 2

\* C17: with max_retries = 2, backoff_base = 1, no jitter and a budget that
\* covers the sleeps, a Transport that returns 503, 503, 200 makes the call
\* sleep 1 and then 2, issue exactly three Transport calls, close both 503
\* responses and return the 200 response.
C17_Scenario503503200 ==
    \A t \in Threads :
        ( /\ eff_max_retries[t] = 2
          /\ eff_backoff_base[t] = 1
          /\ eff_backoff_jitter[t] = 0
          /\ eff_max_backoff_total[t] >= 3
          /\ Calls(t) = 3
          /\ transport_log[t] = <<503, 503, 200>> ) =>
            /\ pc[t] = "done"
            /\ slept[t] = <<1, 2>>
            /\ closed[t] = {1, 2}
            /\ outcome[t].kind = "returned"
            /\ outcome[t].id = 3

\* C17 witness: the scenario has run to its end and the 200 was returned.
C17_Witness ==
    /\ pc["t1"] = "done"
    /\ eff_max_retries["t1"] = 2
    /\ eff_backoff_base["t1"] = 1
    /\ eff_backoff_jitter["t1"] = 0
    /\ eff_max_backoff_total["t1"] = 3
    /\ transport_log["t1"] = <<503, 503, 200>>
    /\ outcome["t1"].kind = "returned"

\* The statuses the specification calls retryable.
RetryableCode(status) == status = 429 \/ (500 <= status /\ status <= 599)

\* The scenario of C18: a budget of 1, a base of 1, no jitter, two or more
\* retries allowed, and a first Transport call that returned a retryable
\* status.
C18_Scenario(t) ==
    /\ eff_max_backoff_total[t] = 1
    /\ eff_backoff_base[t] = 1
    /\ eff_backoff_jitter[t] = 0
    /\ eff_max_retries[t] >= 2
    /\ Calls(t) >= 1
    /\ RetryableCode(transport_log[t][1])

\* The second attempt of the call failed in a retryable way.
SecondAttemptRetryable(t) ==
    /\ Calls(t) >= 2
    /\ \/ RetryableCode(transport_log[t][2])
       \/ transport_log[t][2] = 0 /\ thrown[t].id = 2
            /\ thrown[t].cls \in RetryableClasses

\* What the scenario of C18 ends in: one sleep of 1; when the second attempt
\* is retryable again the call ends there, without a further sleep or
\* Transport call, with the outcome of the second attempt.
C18_Ending(t) ==
    /\ Calls(t) <= 2
    /\ Calls(t) = 1 => \/ pc[t] = "sleeping" /\ sleep_seconds[t] = 1
                       \/ pc[t] = "attempting" /\ slept[t] = <<1>>
    /\ Calls(t) = 2 => pc[t] = "done" /\ slept[t] = <<1>>
    /\ SecondAttemptRetryable(t) =>
           /\ outcome[t].id = 2
           /\ transport_log[t][2] # 0 => outcome[t].kind = "HTTPError"
           /\ transport_log[t][2] = 0 =>
                  outcome[t].kind = "raised" /\ outcome[t].cls = thrown[t].cls

\* C18 as stated: with max_backoff_total = 1, backoff_base = 1, no jitter and
\* at least two retries allowed, a first retryable status causes exactly one
\* sleep of 1; if the second attempt is retryable again the loop ends at once
\* without a further sleep or Transport call, and the outcome is the second
\* attempt's.
C18_OneSleepThenStop ==
    \A t \in Threads : C18_Scenario(t) => C18_Ending(t)

\* C18 amended: the same, for retries whose wanted sleep is positive, that
\* is when no 429 of the call carries Retry-After: 0.
C18_OneSleepThenStopUnlessZeroHint ==
    \A t \in Threads :
        (C18_Scenario(t) /\ \A i \in 1 .. Len(proposals[t]) : proposals[t][i] > 0)
            => C18_Ending(t)

\* C18 witness: a 503, a sleep of 1, a second 503: the call ended on the
\* budget after two Transport calls with the HTTPError of the second 503.
C18_Witness ==
    /\ C18_Scenario("t1")
    /\ pc["t1"] = "done"
    /\ transport_log["t1"] = <<503, 503>>
    /\ slept["t1"] = <<1>>
    /\ proposals["t1"] = <<1, 2>>
    /\ outcome["t1"].kind = "HTTPError"
    /\ outcome["t1"].id = 2

\* C19: _is_retryable_status answers retryable exactly for 429 and for
\* 500 .. 599; every other code (2xx, 3xx, the other 4xx, codes outside
\* 100 .. 599) is not retryable.
C19_RetryableStatusExactly ==
    probe.fn = "_is_retryable_status" =>
        /\ probe.truth <=> (probe.arg = 429 \/ (500 <= probe.arg /\ probe.arg <= 599))
        /\ (probe.arg < 100 \/ probe.arg > 599) => ~probe.truth
        /\ (200 <= probe.arg /\ probe.arg <= 428) => ~probe.truth
        /\ (430 <= probe.arg /\ probe.arg <= 499) => ~probe.truth

\* C19 witness: 599, the last server error, was classified retryable.
C19_Witness ==
    /\ probe.fn = "_is_retryable_status"
    /\ probe.arg = 599
    /\ probe.truth

\* C20: without jitter (backoff_jitter <= 0) _compute_backoff(n) is
\* backoff_base * 2^(n-1) for every n >= 1, with no ceiling on the
\* exponential term, and the n-th retry of a call uses index n.
C20_BackoffIsExponential ==
    /\ (probe.fn = "_compute_backoff" /\ probe.jitter <= 0) =>
           probe.ret = probe.base * 2^(probe.arg - 1)
    /\ \A t \in Threads :
           eff_backoff_jitter[t] <= 0 =>
               \A n \in 1 .. Len(proposals[t]) :
                   proposals[t][n] = eff_backoff_base[t] * 2^(n - 1)

\* C20 witness: the last retry of a call with backoff_base = 2 and a
\* negative jitter wanted 2 * 2^(HelperRetries - 1).
C20_Witness ==
    /\ pc["t1"] = "sleeping"
    /\ eff_backoff_base["t1"] = 2
    /\ eff_backoff_jitter["t1"] < 0
    /\ Len(proposals["t1"]) = HelperRetries
    /\ proposed["t1"] = 2 * 2^(HelperRetries - 1)
    /\ proposed["t1"] > 60

\* C21: once the retry loop of a call has been left (a response to return,
\* a response to fail validation, or an exception to raise), that call issues
\* no further Transport call and performs no further sleep: the only step
\* left to it is to hand its outcome to the caller.
C21_TerminalAbsorbing ==
    [][\A t \in Threads :
          pc[t] = "done" =>
              /\ pc'[t] \in {"done", "idle"}
              /\ Len(transport_log'[t]) <= Len(transport_log[t])
              /\ Len(slept'[t]) <= Len(slept[t])
              /\ pc'[t] = "done" =>
                     /\ transport_log'[t] = transport_log[t]
                     /\ slept'[t] = slept[t]
                     /\ outcome'[t] = outcome[t]]_vars

\* C21 witness: a call left the loop on a 200 after one retry and one sleep.
C21_Witness ==
    /\ pc["t1"] = "done"
    /\ exit_reason["t1"] = "status"
    /\ transport_log["t1"] = <<503, 200>>
    /\ Len(slept["t1"]) = 1
    /\ outcome["t1"].kind = "returned"

\* What one call of request() owns: its position, its counters, its last
\* failure and response, what it asked of the Transport and the sleep
\* function, and its outcome.
Locals(t) ==
    <<pc[t], attempts[t], cumulative_sleep[t], last_exception[t],
      last_response[t], sleep_seconds[t], capped[t], transport_log[t],
      thrown[t], slept[t], closed[t], exit_reason[t], outcome[t],
      eff_max_retries[t], eff_backoff_base[t], eff_backoff_jitter[t],
      eff_max_backoff_total[t]>>

\* C22: with calls of request() under way on several threads of one
\* executor, a step of one call never changes what another call owns, each
\* call's counters count its own sleeps only, and attempts <= max_retries and
\* cumulative_sleep <= max_backoff_total hold for each call by itself.
C22_CallsOwnTheirState ==
    /\ [](\A t \in Threads :
             /\ attempts[t] = Len(slept[t])
             /\ cumulative_sleep[t] = SumSeq(slept[t])
             /\ eff_max_retries[t] >= 0 => attempts[t] <= eff_max_retries[t]
             /\ eff_max_backoff_total[t] >= 0 =>
                    cumulative_sleep[t] <= eff_max_backoff_total[t])
    /\ [][\A t \in Threads :
            Locals(t)' # Locals(t) =>
                \A u \in Threads \ {t} : Locals(u)' = Locals(u)]_vars

\* C22 witness: two calls are under way; the first has slept twice and is at
\* its third Transport call, the second, limited to one retry and a budget of
\* 1, has slept once.
C22_Witness ==
    /\ pc["t1"] = "attempting" /\ attempts["t1"] = 2
    /\ cumulative_sleep["t1"] = 3
    /\ pc["t2"] = "sleeping" /\ attempts["t2"] = 0
    /\ eff_max_retries["t2"] = 1
    /\ transport_log["t2"] = <<503>>

\* What a call has shown so far: where it is, its counters, the sleeps it
\* wanted and performed, what it closed, its outcome, and the state of the
\* generator of its instance.
Shown(t) ==
    <<pc[t], attempts[t], cumulative_sleep[t], sleep_seconds[t], capped[t],
      proposals[t], slept[t], closed[t], exit_reason[t], outcome[t], Rand(t)>>

\* C23: jitter comes from a generator that the instance owns and seeds when
\* it is built: two instances built with the same seed and configuration and
\* fed the same Transport outcomes through the same calls in sequence perform
\* the same sleeps and end in the same outcomes, and a draw made for a call
\* on one instance never moves the generator of another instance.
C23_SeededJitterPerInstance ==
    /\ [](Fed("t1") = Fed("t2") => Shown("t1") = Shown("t2"))
    /\ [][\A t \in Threads :
            Locals(t)' # Locals(t) =>
                \A e \in Executors \ {self[t]} : rand'[e] = rand[e]]_vars

\* C23 witness: both instances are in a call whose first retry, after a 503,
\* drew a jitter of 0 on top of the base of 1; the draw left both generators
\* in the state of the seed, so an earlier call on each had drawn before.
C23_Witness ==
    /\ pc["t1"] = "attempting" /\ pc["t2"] = "attempting"
    /\ transport_log["t1"] = <<503>> /\ transport_log["t2"] = <<503>>
    /\ eff_backoff_jitter["t1"] = MaxJitter
    /\ eff_backoff_jitter["t2"] = MaxJitter
    /\ slept["t1"] = <<1>> /\ slept["t2"] = <<1>>
    /\ rand["e1"] = Seeded(0) /\ rand["e2"] = Seeded(0)

\* What get_session() has handed to a thread.
Handed(w) == {gs_returned[w][i] : i \in 1 .. Len(gs_returned[w])}

\* C24: get_session() returns the same Session on every call made by one
\* thread and different Sessions to different threads: under any
\* interleaving of calls from several threads, at most one Session is ever
\* created per thread and no Session is handed to two threads.
C24_SessionPerThread ==
    \A w \in Workers :
        /\ Cardinality(gs_created[w]) <= 1
        /\ Cardinality(Handed(w)) <= 1
        /\ \A v \in Workers \ {w} : Handed(w) \cap Handed(v) = {}

\* C24 witness: every thread has been handed a Session by calls that
\* overlapped (the first thread created the second Session), and the first
\* thread has called twice.
C24_Witness ==
    /\ \A w \in Workers : Handed(w) # {}
    /\ Len(gs_returned["w1"]) = MaxCalls
    /\ gs_created["w1"] = {2}

\* The classes of what write_temp_then_replace() raises: all are Exceptions.
WriteExceptions == {"Exception", "OSError"}

\* C25: write_temp_then_replace() writes to a temporary file and replaces
\* the target only after all chunks are written, flushed and synced: during
\* a call the target holds its previous content (or does not exist) or the
\* complete new content, never a partial write; the target changes only by
\* the replace, when every chunk has reached the disk in the temporary
\* file; and if the iterable or a write step raises, the target is left
\* unchanged, the temporary file is removed and an Exception reaches the
\* caller.
C25_TargetOldOrComplete ==
    /\ [](wt_pc["w1"] # "idle" =>
            /\ fs_target \in {wt_before["w1"], Some(Concat(wt_input["w1"]))}
            /\ wt_result["w1"].kind = "returned" =>
                   fs_target = Some(Concat(wt_input["w1"]))
            /\ wt_result["w1"].kind = "raised" =>
                   /\ fs_target = wt_before["w1"]
                   /\ wt_temp["w1"] = None
                   /\ \A n \in TempNames : fs_temp[n] = None
                   /\ wt_result["w1"].cls \in WriteExceptions)
    /\ [][(fs_target' # fs_target =>
               /\ wt_pc["w1"] = "replace"
               /\ wt_chunks["w1"] = <<>>
               /\ TempExists("w1")
               /\ TempFile("w1").durable = Concat(wt_input["w1"])
               /\ TempFile("w1").buffer = <<>>)
          /\ (wt_pc["w1"] = "cleanup" /\ wt_pc'["w1"] # "cleanup" =>
                 wt_result'["w1"].kind = "raised")]_vars

\* C25 witness: a call that found the target with content, wrote bytes to
\* its temporary file and then failed has raised.
C25_Witness ==
    /\ wt_pc["w1"] = "done"
    /\ wt_result["w1"].kind = "raised"
    /\ wt_result["w1"].cls = "Exception"
    /\ wt_before["w1"] # None
    /\ wt_total["w1"] > 0
    /\ Some(Concat(wt_input["w1"])) # wt_before["w1"]

\* The smallest n >= 1 whose suffixed name is not among the names.
SmallestFree(names) ==
    CHOOSE n \in 1 .. (MaxFiles + 1) :
        /\ SuffixedName(n) \notin names
        /\ \A m \in 1 .. (n - 1) : SuffixedName(m) \in names

\* C26: ensure_unique_path() returns a path that does not exist:
\* '<base><ext>' if that does not exist, otherwise '<base> (n)<ext>' for the
\* smallest n >= 1 whose path does not exist; and no step of a call creates,
\* removes or changes a file.
C26_SmallestFreeName ==
    /\ [](eu_pc = "done" /\ eu_before = fs_names =>
            /\ eu_result # None
            /\ eu_result[1] \notin fs_names
            /\ OriginalName \notin fs_names => eu_result[1] = OriginalName
            /\ OriginalName \in fs_names =>
                   eu_result[1] = SuffixedName(SmallestFree(fs_names)))
    /\ [][(eu_pc \in {"original", "suffixed"}) =>
              (fs_names' = fs_names /\ fs_target' = fs_target)]_vars

\* C26 witness: the original name and the names with suffixes 1 and 3
\* exist, the name with suffix 0 does not, and the call returned the name
\* with suffix 2.
C26_Witness ==
    /\ eu_pc = "done"
    /\ eu_before = fs_names
    /\ {OriginalName, SuffixedName(1), SuffixedName(3)} \subseteq fs_names
    /\ SuffixedName(0) \notin fs_names
    /\ eu_result = Some(SuffixedName(2))

\* C27: whenever a call that is not streaming ends by raising, a Transport
\* fault or a validation failure, every response received from the Transport
\* during the call has been closed when the caller sees the exception.
C27_ResponsesClosedOnRaise ==
    \A t \in Threads :
        ( /\ pc[t] = "done"
          /\ ~stream[t]
          /\ outcome[t].kind \in {"raised", "HTTPError"} ) =>
            \A i \in 1 .. Calls(t) :
                transport_log[t][i] # 0 => i \in closed[t]

\* The sleep wanted by the retry under way overshoots the budget, and what
\* remains of the budget.
Overshoots(t) ==
    cumulative_sleep[t] + proposed[t] > eff_max_backoff_total[t]
Remaining(t) == Max(0, eff_max_backoff_total[t] - cumulative_sleep[t])

\* C28: when the sleep wanted overshoots the budget and the remaining budget
\* is strictly positive, request() sleeps exactly the remaining budget,
\* adds one to attempts and issues one more Transport call; when the
\* remaining budget is zero it leaves the loop without a sleep, without
\* adding to attempts and without another Transport call.
C28_CappedSleepOrBreak ==
    /\ [](\A t \in Threads :
            /\ (pc[t] = "sleeping" /\ Overshoots(t)) =>
                   /\ Remaining(t) > 0
                   /\ sleep_seconds[t] = Remaining(t)
            /\ (pc[t] = "done" /\ exit_reason[t] = "budget") =>
                   /\ Overshoots(t)
                   /\ Remaining(t) = 0
                   /\ Len(slept[t]) = Calls(t) - 1
                   /\ attempts[t] = Calls(t) - 1)
    /\ [][\A t \in Threads :
            /\ (pc[t] = "sleeping" /\ Overshoots(t) /\ Locals(t)' # Locals(t)) =>
                   /\ slept'[t] = Append(slept[t], Remaining(t))
                   /\ attempts'[t] = attempts[t] + 1
                   /\ transport_log'[t] = transport_log[t]
                   /\ pc'[t] = "attempting"
            /\ (pc[t] = "done" /\ exit_reason[t] = "budget") =>
                   /\ pc'[t] \in {"done", "idle"}
                   /\ Len(slept'[t]) <= Len(slept[t])
                   /\ Len(transport_log'[t]) <= Len(transport_log[t])]_vars

\* C28 witness: a 429 asked for 2 seconds with a budget of 1; the call slept
\* 1 second, counted the attempt and is issuing its second Transport call.
C28_Witness ==
    /\ pc["t1"] = "attempting"
    /\ transport_log["t1"] = <<429>>
    /\ eff_max_backoff_total["t1"] = 1
    /\ proposals["t1"] = <<2>>
    /\ slept["t1"] = <<1>>
    /\ attempts["t1"] = 1

\* A step of the call decides on a retry: one more sleep is wanted.
DecidesRetry(t) == Len(proposals'[t]) = Len(proposals[t]) + 1

\* The retry decided by the step follows a 429 with a valid Retry-After.
HeaderUsed(t) ==
    /\ LastEntry(t)' = 429
    /\ RetryAfterSeconds(resp_header'[t]) # None

\* The exponential term of the retry the call decides on.
Expo(t) == eff_backoff_base[t] * Pow2(attempts[t])

\* C29: with backoff_jitter > 0 the backoff computed for retry index n lies
\* between backoff_base * 2^(n-1) and backoff_base * 2^(n-1) +
\* backoff_jitter and is not negative; one draw is taken from the generator
\* per backoff computed, none when the jitter is <= 0 or a valid Retry-After
\* value is used, and none by any other step.
C29_JitterRangeAndDraws ==
    [][\A t \in Threads :
        Locals(t)' # Locals(t) =>
            IF ~DecidesRetry(t) \/ HeaderUsed(t)
            THEN rand' = rand
            ELSE IF eff_backoff_jitter[t] <= 0
            THEN rand' = rand /\ proposed'[t] = Expo(t)
            ELSE /\ rand' = [rand EXCEPT ![self[t]] = NextRand(@)]
                 /\ rand' # rand
                 /\ Expo(t) <= proposed'[t]
                 /\ proposed'[t] <= Expo(t) + eff_backoff_jitter[t]
                 /\ proposed'[t] >= 0]_vars

\* C29 witness: the second retry of a call with base 1 and the largest
\* jitter wants more than the exponential term 2, by the first draw of the
\* generator: the first retry followed a valid Retry-After and drew nothing.
C29_Witness ==
    /\ pc["t1"] = "sleeping"
    /\ eff_backoff_base["t1"] = 1
    /\ eff_backoff_jitter["t1"] = MaxJitter
    /\ transport_log["t1"] = <<429, 503>>
    /\ proposals["t1"] = <<0, 3>>
    /\ rand["e1"] = NextRand(Seeded(0))

\* The jitter drawn by the step, read off the generator it leaves.
JitterDrawn(t) ==
    IF eff_backoff_jitter[t] > 0
    THEN Uniform(rand'[self[t]], eff_backoff_jitter[t])
    ELSE 0

\* C30: a Retry-After header is honoured only when the status is exactly
\* 429: for a retry after any other status, also a 5xx response with a valid
\* integer Retry-After, and for a retry after an exception, the sleep wanted
\* is the exponential term plus the jitter, and the header value is not used.
C30_HeaderOnlyOn429 ==
    [][\A t \in Threads :
        (DecidesRetry(t) /\ LastEntry(t)' # 429) =>
            proposed'[t] = Expo(t) + JitterDrawn(t)]_vars

\* C30 witness: a 503 carried Retry-After " 2"; the first retry of a call
\* with base 1 and no jitter wants 1 second, not 2.
C30_Witness ==
    /\ pc["t1"] = "sleeping"
    /\ transport_log["t1"] = <<503>>
    /\ resp_header["t1"] = Some(<<" ", "2">>)
    /\ RetryAfterSeconds(resp_header["t1"]) = Some(2)
    /\ eff_backoff_base["t1"] = 1
    /\ eff_backoff_jitter["t1"] = 0
    /\ proposals["t1"] = <<1>>

\* The latest Transport call returned a 429 with a valid Retry-After: the
\* seconds it asks for, None otherwise.
Hint(t) ==
    IF Calls(t) > 0 /\ LastEntry(t) = 429
    THEN RetryAfterSeconds(resp_header[t])
    ELSE None

Smaller(a, b) == IF a < b THEN a ELSE b

\* C31: a Retry-After value is subject to the sleep budget like a computed
\* backoff: with max_backoff_total >= 0, the sleep after a 429 with
\* Retry-After N is min(N, max_backoff_total - cumulative_sleep); with N > 0
\* and nothing left of the budget the loop ends without a sleep; and the
\* sleeps of one call never add up to more than max_backoff_total.
C31_RetryAfterWithinBudget ==
    \A t \in Threads :
        eff_max_backoff_total[t] >= 0 =>
            /\ (pc[t] = "sleeping" /\ Hint(t) # None) =>
                   /\ sleep_seconds[t] =
                          Smaller(Hint(t)[1],
                                  eff_max_backoff_total[t] - cumulative_sleep[t])
                   /\ Hint(t)[1] > 0 =>
                          cumulative_sleep[t] < eff_max_backoff_total[t]
            /\ (pc[t] = "done" /\ Hint(t) # None /\ AttemptsLeft(t)) =>
                   /\ exit_reason[t] = "budget"
                   /\ Hint(t)[1] > 0
                   /\ cumulative_sleep[t] = eff_max_backoff_total[t]
                   /\ Len(slept[t]) = Calls(t) - 1
            /\ SumSeq(slept[t]) = cumulative_sleep[t]
            /\ cumulative_sleep[t] <= eff_max_backoff_total[t]
            /\ pc[t] = "sleeping" =>
                   cumulative_sleep[t] + sleep_seconds[t]
                       <= eff_max_backoff_total[t]

\* C31 witness: two 429 responses asked for 2 seconds each with a budget of
\* 3; the call slept 2 seconds and is about to sleep the 1 second left.
C31_Witness ==
    /\ pc["t1"] = "sleeping"
    /\ transport_log["t1"] = <<429, 429>>
    /\ eff_max_backoff_total["t1"] = 3
    /\ proposals["t1"] = <<2, 2>>
    /\ slept["t1"] = <<2>>
    /\ sleep_seconds["t1"] = 1

Issued(t) == Calls(t) + (IF pc[t] = "attempting" THEN 1 ELSE 0)

\* C33: retries after a status and retries after an exception share one
\* attempt counter and one cumulative sleep: in every state of a call the
\* number of sleeps performed equals attempts and equals the number of
\* Transport calls issued minus one, cumulative_sleep is the sum of all the
\* sleeps, and the i-th sleep wanted is computed with retry index i (or is
\* the Retry-After value of a 429) whatever statuses and exceptions came
\* before.
C33_OneCounterForBothPaths ==
    /\ [](\A t \in Threads :
            pc[t] # "idle" =>
                /\ Len(slept[t]) = attempts[t]
                /\ attempts[t] = Issued(t) - 1
                /\ cumulative_sleep[t] = SumSeq(slept[t]))
    /\ [][\A t \in Threads :
            DecidesRetry(t) =>
                /\ Len(proposals'[t]) = Len(slept[t]) + 1
                /\ proposed'[t] =
                       IF HeaderUsed(t)
                       THEN RetryAfterSeconds(resp_header'[t])[1]
                       ELSE eff_backoff_base[t] * Pow2(Len(slept[t]))
                                + JitterDrawn(t)]_vars

\* C33 witness: a timeout, then a 503; the second retry of the call, with
\* base 1 and no jitter, wants 2 seconds after a first sleep of 1.
C33_Witness ==
    /\ pc["t1"] = "sleeping"
    /\ transport_log["t1"] = <<0, 503>>
    /\ thrown["t1"].cls = "ReadTimeout"
    /\ eff_backoff_jitter["t1"] = 0
    /\ slept["t1"] = <<1>>
    /\ proposals["t1"] = <<1, 2>>
    /\ sleep_seconds["t1"] = 2
    /\ attempts["t1"] = 1

\* C34: every call of request() terminates: when every Transport call and
\* every sleep returns, a call that is under way reaches its end, where it
\* returns or raises, and it issues at most max(max_retries, 0) + 1
\* Transport calls.
C34_Terminates ==
    /\ \A t \in Threads :
           (pc[t] \in {"attempting", "sleeping"}) ~>
               (pc[t] = "done" /\ outcome[t].kind # "none")
    /\ [](\A t \in Threads :
            pc[t] # "idle" => Issued(t) <= Max(eff_max_retries[t], 0) + 1)

\* C34 witness: every answer was retryable; the call ended after
\* max_retries + 1 Transport calls, the last one answered by a fault.
C34_Witness ==
    /\ pc["t1"] = "done"
    /\ exit_reason["t1"] = "exhausted"
    /\ eff_max_retries["t1"] = MaxRetriesChoice
    /\ Calls("t1") = MaxRetriesChoice + 1
    /\ LastCallRaised("t1")
    /\ outcome["t1"].kind = "raised"

\* C35: with an effective max_retries of 0 or less, request() issues exactly
\* one Transport call and performs no sleep whatever the first outcome is,
\* and the caller's outcome is the outcome of that attempt: the response if
\* it passes validation, its HTTPError if it does not, or the fault raised.
C35_NoRetriesAtZero ==
    \A t \in Threads :
        (pc[t] # "idle" /\ eff_max_retries[t] <= 0) =>
            /\ pc[t] # "sleeping"
            /\ slept[t] = <<>>
            /\ proposals[t] = <<>>
            /\ Issued(t) = 1
            /\ pc[t] = "done" =>
                   /\ Calls(t) = 1
                   /\ outcome[t].id = 1
                   /\ LastCallReturned(t) =>
                          outcome[t].kind =
                              IF RaisesForStatus(LastEntry(t))
                              THEN "HTTPError" ELSE "returned"
                   /\ LastCallRaised(t) =>
                          /\ outcome[t].kind = "raised"
                          /\ outcome[t].cls = thrown[t].cls

\* C35 witness: with max_retries = -1 the first answer, a retryable 503, ends
\* the call with its HTTPError and without a sleep.
C35_Witness ==
    /\ pc["t1"] = "done"
    /\ eff_max_retries["t1"] = 0 - 1
    /\ transport_log["t1"] = <<503>>
    /\ slept["t1"] = <<>>
    /\ outcome["t1"].kind = "HTTPError"
    /\ exit_reason["t1"] = "exhausted"

\* The text of the page the call was made with, from an offset on.
InputFrom(offset) == SubSeq(gi_input, offset + 1, Len(gi_input))

\* A pass of the loop that does not end it leaves a shorter page and one
\* more item.
PassShortensPage ==
    (gi_pc = "loop" /\ gi_pc' = "loop") =>
        /\ Len(gi_page') < Len(gi_page)
        /\ Len(gi_items') = Len(gi_items) + 1

\* The page has no metadata marker left, or its next block does not give a
\* non-empty object.
BadBlock ==
    \/ \A i \in 1 .. Len(gi_page) : gi_page[i] \notin {"M", "T"}
    \/ GetNextItem(gi_page).item = EmptyDict

BadBlockEndsLoop ==
    (gi_pc = "loop" /\ BadBlock) => (gi_pc' = "done" /\ gi_items' = gi_items)

\* Each item is the object standing at its place in the page the call was
\* made with, and the places increase.
ItemsInPageOrder ==
    /\ Len(gi_items) = gi_count
    /\ Len(gi_offsets) = Len(gi_items)
    /\ \A i \in 1 .. Len(gi_items) :
           /\ gi_items[i].image_link \in Links
           /\ SubSeq(InputFrom(gi_offsets[i]), 1, 3)
                  = <<"{", gi_items[i].image_link, "}">>
           /\ \A j \in 1 .. (i - 1) : gi_offsets[j] < gi_offsets[i]

\* C36 as stated: _get_all_items(page, limit) terminates for every page and
\* every limit, returns at most limit items in page order, strictly
\* shortens the page on every pass that does not end the loop, and stops at
\* the first block that is missing or is not a non-empty JSON object.
C36_AtMostLimitItems ==
    /\ (gi_pc = "loop") ~> (gi_pc = "done")
    /\ [](gi_pc = "done" => Len(gi_items) <= gi_limit)
    /\ []ItemsInPageOrder
    /\ [][PassShortensPage /\ BadBlockEndsLoop]_vars

\* C36: _get_all_items(page, limit) terminates for every page and every
\* limit; it returns at most limit items, and none for a limit below 1,
\* each the object found at its place in the page and the places in
\* increasing order; every pass of the loop that does not end it leaves a
\* strictly shorter page; and a pass that finds no metadata marker, or a
\* block that does not parse as a non-empty JSON object, ends the loop and
\* adds nothing.
C36_ItemsInOrderAndTerminates ==
    /\ (gi_pc = "loop") ~> (gi_pc = "done")
    /\ [](Len(gi_items) <= Max(gi_limit, 0))
    /\ []ItemsInPageOrder
    /\ [][PassShortensPage /\ BadBlockEndsLoop]_vars

\* C36 witness: a page with three well-formed blocks, scanned with limit 2:
\* the call ended with the first two objects, in page order, and the third
\* block still in the page.
C36_Witness ==
    /\ gi_pc = "done"
    /\ gi_limit = 2
    /\ gi_input = <<"M", "{", "b", "}", "D", "M", "{", "a", "}", "D",
                    "M", "{", "b", "}", "D">>
    /\ gi_items = <<[image_link |-> "b"], [image_link |-> "a"]>>
    /\ gi_offsets = <<1, 6>>
    /\ gi_page = <<"D", "M", "{", "b", "}", "D">>

\* The bytes that have reached the temporary file of a thread or wait in
\* its buffer.
Written(w) == TempFile(w).file \o TempFile(w).buffer

\* The first bytes of a content.
IsPrefix(a, b) == Len(a) <= Len(b) /\ SubSeq(b, 1, Len(a)) = a

\* The complete contents of the calls made so far.
CompleteContents ==
    {Some(Concat(wt_input[w])) : w \in {v \in Writers : wt_pc[v] # "idle"}}

\* The target changes by the replace of one thread only, to the complete
\* content of that thread.
TargetSetByOneReplace ==
    (fs_target' # fs_target) =>
        \E w \in Writers :
            /\ wt_pc[w] = "replace"
            /\ wt_pc'[w] = "done"
            /\ wt_result'[w].kind = "returned"
            /\ fs_target' = Some(Concat(wt_input[w]))

\* C37: when two calls of write_temp_then_replace() run at the same time on
\* one target, each has a temporary file of its own, which holds bytes of
\* that call only; under every interleaving the target is absent or holds
\* the complete content of one of the calls, the one whose replace came
\* last, never a mixture; and when both calls have returned no temporary
\* file is left.
C37_ConcurrentWritesDoNotMix ==
    /\ [](\A w \in Writers :
            /\ \A v \in Writers \ {w} :
                   (wt_temp[w] # None /\ wt_temp[v] # None) =>
                       wt_temp[w] # wt_temp[v]
            /\ wt_temp[w] # None =>
                   /\ TempExists(w)
                   /\ IsPrefix(Written(w), Concat(wt_input[w])))
    /\ [](fs_target \in {None} \cup CompleteContents)
    /\ []((\A w \in Writers : wt_result[w].kind = "returned") =>
            /\ fs_target \in CompleteContents
            /\ \A n \in TempNames : fs_temp[n] = None
            /\ \A w \in Writers : wt_temp[w] = None)
    /\ [][TargetSetByOneReplace]_vars

\* C37 witness: the second thread was called while the target did not
\* exist and has its complete content ready in its temporary file; the
\* first thread, writing other bytes, has replaced the target in between
\* and returned.
C37_Witness ==
    /\ wt_pc["w1"] = "done"
    /\ wt_result["w1"].kind = "returned"
    /\ wt_input["w1"] = << <<2, 3>>, <<1>> >>
    /\ fs_target = Some(<<2, 3, 1>>)
    /\ wt_pc["w2"] = "replace"
    /\ wt_before["w2"] = None
    /\ wt_input["w2"] = << <<1>> >>
    /\ TempExists("w2")
    /\ TempFile("w2").durable = <<1>>

====
